---------------------------- MODULE Spec2Model ----------------------------
(***************************************************************************)
(* Plan / session lifecycle manager of the study optimizer (api.js, kept   *)
(* in src/unnamed/part_000), modelled over an abstract document store.     *)
(*                                                                         *)
(* Every `await` of the source is one atomic store round trip and one      *)
(* step of the calling process; a writeBatch commit is one atomic step.    *)
(* Document ids that the store generates (addDoc) are modelled as the next *)
(* free index of the collection.  Strings that the code trims are          *)
(* sequences of one-character strings.                                     *)
(*                                                                         *)
(* Encodings (TLC compares only values of one type):                       *)
(*   ids and timestamps are positive integers, NULL (0) is JavaScript      *)
(*   null and ABSENT (-1) a field the document does not have;              *)
(*   NOTNUM is an argument that is undefined / not a finite number.        *)
(***************************************************************************)
EXTENDS Integers, Sequences, FiniteSets, TLC

VARIABLES
    plans,          \* collection "plans": sequence of plan documents, id = index
    tasks,          \* sub-collections plans/{id}/tasks: tasks[id] = sequence of task documents
    expectedTasks,  \* history: expectedTasks[id] = number of input tasks with a non-empty title
    userDocs,       \* collection "users": userDocs[u] = the pointer document of user u
    sessions,       \* sub-collections users/{u}/sessions: sessions[u] = sequence of session documents
    returned,       \* history: returned[u] = ids that completed startSession calls of u returned
    clock,          \* the time (serverTimestamp / Date.now)
    proc            \* proc[p]: the call process (tab) p is executing, its position and locals

vars == <<plans, tasks, expectedTasks, userDocs, sessions, returned, clock, proc>>

\* ------------------------------------------------------------------ bounds
MaxPlans == 3
MaxSessions == 3
MaxClock == 2
MaxRacingSessions == 2
MaxTaskPlans == 2
MaxHealPlans == 2
MaxDaysBack == 3
MaxLoggedSessions == 3
MaxScoredSessions == 2
MaxPointerSessions == 2
MaxPointerPlans == 1
MaxFaultSessions == 2
MaxPagedPlans == 51

\* the length of a calendar day in ticks of the clock
TicksPerDay == 2

NULL == 0
ABSENT == 0 - 1
NOTNUM == 0 - 999
NULLNUM == 0 - 998      \* null in a field that otherwise holds a number

Users == {"u1", "u2"}
Procs == {1, 2}

\* ------------------------------------------------------------ pure helpers

\* String.prototype.trim on a sequence of characters
RECURSIVE TrimStart(_)
TrimStart(s) ==
    IF s = <<>> THEN s
    ELSE IF Head(s) = " " THEN TrimStart(Tail(s)) ELSE s

RECURSIVE TrimEnd(_)
TrimEnd(s) ==
    IF s = <<>> THEN s
    ELSE IF s[Len(s)] = " " THEN TrimEnd(SubSeq(s, 1, Len(s) - 1)) ELSE s

Trim(s) == TrimEnd(TrimStart(s))

\* Number.isFinite(Number(x)) ? Number(x) : dflt
FiniteOr(x, dflt) == IF x = NOTNUM THEN dflt ELSE x

Max(a, b) == IF a >= b THEN a ELSE b
Min(a, b) == IF a <= b THEN a ELSE b

\* ---------------------------------------------------------------- store

PlanIds == 1 .. Len(plans)

\* query(plans, where userId == uid, where active == true)
ActivePlansOf(uid) == {id \in PlanIds : plans[id].userId = uid /\ plans[id].active}

NoUserDoc ==
    [activePlanId |-> ABSENT, activeSessionId |-> ABSENT,
     activeSessionStartedAtMs |-> ABSENT, activeSessionMode |-> "absent"]

\* snap.exists() of users/{uid}: the document exists once a merge-write created it
UserDocExists(uid) == userDocs[uid] # NoUserDoc

\* mutant: the pointer is written without merge, the write replaces the
\* document
SetActivePlanPointerNoMerge(docs, uid, planId) ==
    [docs EXCEPT ![uid] = [NoUserDoc EXCEPT !.activePlanId = planId]]

\* setDoc(userDocRef(uid), { activePlanId }, { merge: true })
SetActivePlanPointer(docs, uid, planId) ==
    [docs EXCEPT ![uid].activePlanId = planId]

\* query(collection(db, "plans"), where("userId", "==", uid))
PlansOf(uid) == {id \in PlanIds : plans[id].userId = uid}

\* mutant: the batch forgets the deactivations
DeactivateNone(pls, snap) == pls

\* activeSnap.forEach((d) => batch.update(d.ref, { active: false }))
DeactivateAll(pls, snap) ==
    [id \in DOMAIN pls |->
        IF id \in snap THEN [pls[id] EXCEPT !.active = FALSE] ELSE pls[id]]

\* batch.update(planRef, { active: true })
Activate(pls, planId) == [pls EXCEPT ![planId].active = TRUE]

\* the plan document createPlan inserts. Of input (input || null) the model
\* keeps the one field the code reads, input.energyLevel: NULLNUM when there
\* is no input or no energyLevel in it, NOTNUM when it is not a number.
\* optimizedAt is the field optimizeTasksInPlan adds later.
NewPlanDoc(uid, cleanTitle, input, now) ==
    [userId |-> uid, title |-> cleanTitle, active |-> TRUE, createdAt |-> now,
     input |-> input, optimizedAt |-> ABSENT]

\* tasks.forEach((t, i) => ...): one task document per entry with a non-empty
\* trimmed title; i is the 0-based index in the input, items[i + 1] here.
\* (subject and the task's createdAt, which no code reads, are left out)
RECURSIVE BuildTasks(_, _)
BuildTasks(items, i) ==
    IF i >= Len(items) THEN <<>>
    ELSE LET t == items[i + 1]
             taskTitle == Trim(t.title)
         IN  IF taskTitle = <<>> THEN BuildTasks(items, i + 1)
             ELSE <<[title |-> taskTitle,
                     plannedMinutes |-> FiniteOr(t.plannedMinutes, 25),
                     done |-> FALSE,
                     order |-> FiniteOr(t.order, i),
                     completedAt |-> NULL]>> \o BuildTasks(items, i + 1)

\* Number(x) || 0
NumberOr0(x) == IF x = NOTNUM THEN 0 ELSE x

\* Number(x) || dflt, of a stored field that can be null: the default
\* replaces null and 0 too
NumberOr(x, dflt) == IF x \in {NOTNUM, NULLNUM, 0} THEN dflt ELSE x

\* Math.max(0, Math.min(100, Number(x) || 0))
Clamp100(x) == Max(0, Min(100, NumberOr0(x)))

SessionIds(uid) == 1 .. Len(sessions[uid])

RunningSessions(uid) == {s \in SessionIds(uid) : sessions[uid][s].status = "running"}

Truthy(x) == x # NULL /\ x # ABSENT

\* getActiveSessionPointer(): the pointer's session id, or NULL when the user
\* document does not exist or names no session
ActiveSessionPointer(uid) ==
    IF ~UserDocExists(uid) THEN NULL
    ELSE IF ~Truthy(userDocs[uid].activeSessionId) THEN NULL
    ELSE userDocs[uid].activeSessionId

\* setDoc(userDocRef(uid), { activeSessionId, activeSessionStartedAtMs,
\*                          activeSessionMode }, { merge: true })
SetActiveSessionPointer(docs, uid, sessionId, startedAtMs, mode, now) ==
    [docs EXCEPT ![uid].activeSessionId = sessionId,
                 ![uid].activeSessionStartedAtMs =
                     IF Truthy(startedAtMs) THEN startedAtMs ELSE now,
                 ![uid].activeSessionMode =
                     IF mode = "" THEN "pomodoro" ELSE mode]

\* mutant: the clearing write leaves activeSessionId as it is
ClearAllButSessionId(docs, uid) ==
    [docs EXCEPT ![uid].activeSessionStartedAtMs = NULL,
                 ![uid].activeSessionMode = "null"]

\* setDoc(userDocRef(uid), { activeSessionId: null, ... }, { merge: true })
ClearActiveSessionPointer(docs, uid) ==
    [docs EXCEPT ![uid].activeSessionId = NULL,
                 ![uid].activeSessionStartedAtMs = NULL,
                 ![uid].activeSessionMode = "null"]

\* the payload startSession inserts (planId and taskId, which no code reads,
\* are left out); a null subject is the string "null"
NewSessionDoc(a, now) ==
    [mode |-> a.mode,
     subject |-> a.subject,
     startedAt |-> now,
     endedAt |-> NULL,
     durationMinutes |-> 0,
     status |-> "running",
     completed |-> "absent",
     plannedMinutes |->
         IF a.plannedMinutes = NULLNUM THEN NULLNUM ELSE NumberOr0(a.plannedMinutes),
     scaledMinutes |->
         IF a.scaledMinutes = NULLNUM THEN NULLNUM ELSE NumberOr0(a.scaledMinutes),
     burnoutScoreAtStart |->
         IF a.burnoutScoreAtStart = NULLNUM THEN NULLNUM
         ELSE Clamp100(a.burnoutScoreAtStart),
     burnoutScoreAtEnd |-> ABSENT]

\* mutant: terminal fields are written once, a terminal session is left alone
EndUpdateOnce(doc, durationMinutes, status, burnoutScoreAtEnd, now) ==
    IF doc.status # "running" THEN doc
    ELSE [doc EXCEPT !.endedAt = now,
                     !.durationMinutes = Max(0, NumberOr0(durationMinutes)),
                     !.status = status,
                     !.completed = IF status = "completed" THEN "true" ELSE "false"]

\* mutant: the update leaves out the completed flag
EndUpdateNoFlag(doc, durationMinutes, status, burnoutScoreAtEnd, now) ==
    [doc EXCEPT !.endedAt = now,
                !.durationMinutes = Max(0, NumberOr0(durationMinutes)),
                !.status = status,
                !.burnoutScoreAtEnd =
                    IF burnoutScoreAtEnd # NULLNUM THEN Clamp100(burnoutScoreAtEnd)
                    ELSE @]

\* mutant: the numbers of the update are stored as they were given
EndUpdateUnclamped(doc, durationMinutes, status, burnoutScoreAtEnd, now) ==
    [doc EXCEPT !.endedAt = now,
                !.durationMinutes = NumberOr0(durationMinutes),
                !.status = status,
                !.completed = IF status = "completed" THEN "true" ELSE "false",
                !.burnoutScoreAtEnd =
                    IF burnoutScoreAtEnd # NULLNUM THEN NumberOr0(burnoutScoreAtEnd)
                    ELSE @]

\* the update endSession writes over the session document
EndUpdate(doc, durationMinutes, status, burnoutScoreAtEnd, now) ==
    [doc EXCEPT !.endedAt = now,
                !.durationMinutes = Max(0, NumberOr0(durationMinutes)),
                !.status = status,
                !.completed = IF status = "completed" THEN "true" ELSE "false",
                !.burnoutScoreAtEnd =
                    IF burnoutScoreAtEnd # NULLNUM THEN Clamp100(burnoutScoreAtEnd)
                    ELSE @]

\* ---------------------------------------------------------- call arguments

StartArg(m, pm, sm, b) ==
    [mode |-> m, plannedMinutes |-> pm, scaledMinutes |-> sm, burnoutScoreAtStart |-> b,
     subject |-> "null"]

NoStartArg == StartArg("none", NULLNUM, NULLNUM, NULLNUM)

\* a pomodoro of 25 planned minutes, no usable scaled minutes, and a burnout
\* score above the scale
StartArgs == { StartArg("pomodoro", 25, NOTNUM, 150) }

EndArg(d, st, b) == [durationMinutes |-> d, status |-> st, burnoutScoreAtEnd |-> b]

\* a finished pomodoro, a cancellation reported with a negative duration, and
\* the arguments cancelSession passes
EndArgs ==
    { EndArg(25, "completed", NULLNUM), EndArg(0 - 5, "cancelled", NULLNUM),
      EndArg(0, "cancelled", NULLNUM) }

TaskInput(t, pm, ord) == [title |-> t, plannedMinutes |-> pm, order |-> ord]

NoTaskArg == [isArray |-> FALSE, items |-> <<>>]

TaskArrays ==
    { <<>>,
      <<TaskInput(<<" ">>, 10, NOTNUM), TaskInput(<<" ", "b">>, 40, NOTNUM)>> }

TaskArgs == {NoTaskArg} \cup {[isArray |-> TRUE, items |-> a] : a \in TaskArrays}

TitleArgs == { <<>>, <<" ">>, <<" ", "A">> }

\* one entry of the updates of optimizeTasksInPlan
TaskUpdate(id, pm, pr, ord) ==
    [taskId |-> id, plannedMinutes |-> pm, priority |-> pr, order |-> ord]

NoUpdatesArg == [isArray |-> FALSE, items |-> <<>>]

\* no list, an empty list, an update of task 1 (with an entry that names no
\* task), and an update of task 1 with an update of a task no plan has
UpdatesArgs ==
    { NoUpdatesArg,
      [isArray |-> TRUE, items |-> <<>>],
      [isArray |-> TRUE,
       items |-> <<TaskUpdate(1, 0, NOTNUM, 5), TaskUpdate(NULL, 50, 1, 1)>>],
      [isArray |-> TRUE,
       items |-> <<TaskUpdate(1, 30, 2, 0), TaskUpdate(9, 30, 2, 0)>>] }

\* two tasks given in the reverse of their order fields
TwoTasks ==
    [isArray |-> TRUE,
     items |-> <<TaskInput(<<"a">>, 10, 2), TaskInput(<<"b">>, 40, 1)>>]

\* ---------------------------------------------------------- call processes

IdleProc ==
    [op |-> "none", pc |-> "idle", uid |-> "none",
     title |-> <<>>, taskArg |-> NoTaskArg, input |-> NULLNUM,
     planId |-> NULL, snap |-> {},
     sessId |-> NULL, start |-> NoStartArg, startedAtMs |-> NULL,
     dur |-> 0, status |-> "none", burnoutEnd |-> NULLNUM,
     outcome |-> "none", rid |-> NULL, reused |-> FALSE,
     nSessBegin |-> 0, prior |-> "none",
     taskId |-> NULL, done |-> FALSE, updates |-> NoUpdatesArg,
     tasksRead |-> FALSE, out |-> <<>>, tier |-> "none",
     days |-> 0, totalMinutes |-> 0, streak |-> 0,
     limitCount |-> 0, prev |-> NULL]

Resting(p) == proc[p].pc \in {"idle", "done"}

\* no call is in flight
AllResting == \A q \in Procs : Resting(q)

\* a call ends: its locals are dropped, what it returned or threw is kept
Finish(p, outcome, rid, reused) ==
    [IdleProc EXCEPT !.op = proc[p].op, !.pc = "done", !.uid = proc[p].uid,
                     !.sessId = proc[p].sessId,
                     !.dur = proc[p].dur, !.status = proc[p].status,
                     !.burnoutEnd = proc[p].burnoutEnd,
                     !.outcome = outcome, !.rid = rid, !.reused = reused,
                     !.nSessBegin = proc[p].nSessBegin,
                     !.prior = proc[p].prior]

Init ==
    /\ plans = <<>>
    /\ tasks = <<>>
    /\ expectedTasks = <<>>
    /\ userDocs = [u \in Users |-> NoUserDoc]
    /\ sessions = [u \in Users |-> <<>>]
    /\ returned = [u \in Users |-> {}]
    /\ clock = 1
    /\ proc = [p \in Procs |-> IdleProc]

\* time passes
Tick ==
    /\ clock < MaxClock
    /\ clock' = clock + 1
    /\ UNCHANGED <<plans, tasks, expectedTasks, userDocs, sessions, returned, proc>>

\* ------------------------------------------------------------- createPlan

InFlightCreates ==
    {q \in Procs : proc[q].op = "createPlan" /\ proc[q].pc \in {"cp_query", "cp_add"}}

\* mutant: the title is not trimmed before it is checked
CreatePlanCallUntrimmed(p, uid, title, taskArg, input) ==
    /\ Resting(p)
    /\ Len(plans) + Cardinality(InFlightCreates) < MaxPlans
    /\ LET call == [IdleProc EXCEPT !.op = "createPlan", !.uid = uid]
       IN  proc' = [proc EXCEPT ![p] =
                IF title = <<>> \/ ~taskArg.isArray
                THEN [call EXCEPT !.pc = "done", !.outcome = "ValidationError"]
                ELSE [call EXCEPT !.pc = "cp_query", !.title = title,
                                  !.taskArg = taskArg, !.input = input]]
    /\ UNCHANGED <<plans, tasks, expectedTasks, userDocs, sessions, returned, clock>>

\* the call, up to its first await: requireUser and the two validations
CreatePlanCall(p, uid, title, taskArg, input) ==
    /\ Resting(p)
    /\ Len(plans) + Cardinality(InFlightCreates) < MaxPlans
    /\ LET cleanTitle == Trim(title)
           call == [IdleProc EXCEPT !.op = "createPlan", !.uid = uid]
       IN  proc' = [proc EXCEPT ![p] =
                IF cleanTitle = <<>> \/ ~taskArg.isArray
                THEN [call EXCEPT !.pc = "done", !.outcome = "ValidationError"]
                ELSE [call EXCEPT !.pc = "cp_query", !.title = cleanTitle,
                                  !.taskArg = taskArg, !.input = input]]
    /\ UNCHANGED <<plans, tasks, expectedTasks, userDocs, sessions, returned, clock>>

\* const activeSnap = await getDocs(activeQ)
CreatePlanQuery(p) ==
    /\ proc[p].pc = "cp_query"
    /\ proc' = [proc EXCEPT ![p].pc = "cp_add",
                            ![p].snap = ActivePlansOf(proc[p].uid)]
    /\ UNCHANGED <<plans, tasks, expectedTasks, userDocs, sessions, returned, clock>>

\* const planRef = await addDoc(collection(db, "plans"), { ..., active: true, ... })
CreatePlanAddDoc(p) ==
    /\ proc[p].pc = "cp_add"
    /\ plans' = Append(plans, NewPlanDoc(proc[p].uid, proc[p].title, proc[p].input, clock))
    /\ tasks' = Append(tasks, <<>>)
    /\ expectedTasks' = Append(expectedTasks,
                               Len(BuildTasks(proc[p].taskArg.items, 0)))
    /\ proc' = [proc EXCEPT ![p].pc = "cp_commit", ![p].planId = Len(plans) + 1]
    /\ UNCHANGED <<userDocs, sessions, returned, clock>>

\* await batch.commit(): the deactivations and the task inserts, atomically
CreatePlanCommit(p) ==
    /\ proc[p].pc = "cp_commit"
    /\ plans' = DeactivateAll(plans, proc[p].snap)
    /\ tasks' = [tasks EXCEPT ![proc[p].planId] =
                    @ \o BuildTasks(proc[p].taskArg.items, 0)]
    /\ proc' = [proc EXCEPT ![p].pc = "cp_ptr"]
    /\ UNCHANGED <<expectedTasks, userDocs, sessions, returned, clock>>

\* await setActivePlanPointer(planRef.id); return { id: planRef.id }
CreatePlanSetPointer(p) ==
    /\ proc[p].pc = "cp_ptr"
    /\ userDocs' = SetActivePlanPointer(userDocs, proc[p].uid, proc[p].planId)
    /\ proc' = [proc EXCEPT ![p] = Finish(p, "ok", proc[p].planId, FALSE)]
    /\ UNCHANGED <<plans, tasks, expectedTasks, sessions, returned, clock>>

\* a store write of createPlan fails (StorageError): the write has no effect
\* and the error propagates to the caller
CreatePlanWriteFails(p) ==
    /\ proc[p].pc \in {"cp_add", "cp_commit", "cp_ptr"}
    /\ proc' = [proc EXCEPT ![p] = Finish(p, "StorageError", NULL, FALSE)]
    /\ UNCHANGED <<plans, tasks, expectedTasks, userDocs, sessions, returned, clock>>

\* ----------------------------------------------------------- setPlanActive

SetPlanActiveCall(p, uid, planId) ==
    /\ Resting(p)
    /\ proc' = [proc EXCEPT ![p] =
            [IdleProc EXCEPT !.op = "setPlanActive", !.pc = "spa_get",
                             !.uid = uid, !.planId = planId]]
    /\ UNCHANGED <<plans, tasks, expectedTasks, userDocs, sessions, returned, clock>>

\* mutant: setPlanActive does not look at the owner of the plan
SetPlanActiveGetUnchecked(p) ==
    /\ proc[p].pc = "spa_get"
    /\ proc' = [proc EXCEPT ![p] =
            IF proc[p].planId \notin PlanIds THEN Finish(p, "NotFound", NULL, FALSE)
            ELSE [proc[p] EXCEPT !.pc = "spa_query"]]
    /\ UNCHANGED <<plans, tasks, expectedTasks, userDocs, sessions, returned, clock>>

\* const planSnap = await getDoc(planRef); the existence and ownership checks
SetPlanActiveGet(p) ==
    /\ proc[p].pc = "spa_get"
    /\ proc' = [proc EXCEPT ![p] =
            IF proc[p].planId \notin PlanIds THEN Finish(p, "NotFound", NULL, FALSE)
            ELSE IF plans[proc[p].planId].userId # proc[p].uid
                 THEN Finish(p, "Forbidden", NULL, FALSE)
                 ELSE [proc[p] EXCEPT !.pc = "spa_query"]]
    /\ UNCHANGED <<plans, tasks, expectedTasks, userDocs, sessions, returned, clock>>

\* const activeSnap = await getDocs(activeQ)
SetPlanActiveQuery(p) ==
    /\ proc[p].pc = "spa_query"
    /\ proc' = [proc EXCEPT ![p].pc = "spa_commit",
                            ![p].snap = ActivePlansOf(proc[p].uid)]
    /\ UNCHANGED <<plans, tasks, expectedTasks, userDocs, sessions, returned, clock>>

\* await batch.commit(): the deactivations, then active: true on the target
SetPlanActiveCommit(p) ==
    /\ proc[p].pc = "spa_commit"
    /\ plans' = Activate(DeactivateAll(plans, proc[p].snap), proc[p].planId)
    /\ proc' = [proc EXCEPT ![p].pc = "spa_ptr"]
    /\ UNCHANGED <<tasks, expectedTasks, userDocs, sessions, returned, clock>>

\* mutant: setPlanActive returns without writing the pointer
SetPlanActivePointerSkipped(p) ==
    /\ proc[p].pc = "spa_ptr"
    /\ proc' = [proc EXCEPT ![p] = Finish(p, "ok", NULL, FALSE)]
    /\ UNCHANGED <<plans, tasks, expectedTasks, userDocs, sessions, returned, clock>>

\* await setActivePlanPointer(planId)
SetPlanActiveSetPointer(p) ==
    /\ proc[p].pc = "spa_ptr"
    /\ userDocs' = SetActivePlanPointer(userDocs, proc[p].uid, proc[p].planId)
    /\ proc' = [proc EXCEPT ![p] = Finish(p, "ok", NULL, FALSE)]
    /\ UNCHANGED <<plans, tasks, expectedTasks, sessions, returned, clock>>

\* ----------------------------------------------------------- startSession

\* history: the status a session has when a call about it is made
StatusOf(uid, sid) ==
    IF sid \in SessionIds(uid) THEN sessions[uid][sid].status ELSE "none"

InFlightStarts(uid) ==
    {q \in Procs : /\ proc[q].op = "startSession" /\ proc[q].uid = uid
                   /\ proc[q].pc \in {"ss_ptr", "ss_get", "ss_clear", "ss_add"}}

StartSessionCall(p, uid, a, maxSessions) ==
    /\ Resting(p)
    /\ Len(sessions[uid]) + Cardinality(InFlightStarts(uid)) < maxSessions
    /\ proc' = [proc EXCEPT ![p] =
            [IdleProc EXCEPT !.op = "startSession", !.pc = "ss_ptr", !.uid = uid,
                             !.start = a,
                             !.nSessBegin = Len(sessions[uid])]]
    /\ UNCHANGED <<plans, tasks, expectedTasks, userDocs, sessions, returned, clock>>

\* const ptr = await getActiveSessionPointer().catch(() => null)
StartSessionReadPointer(p) ==
    /\ proc[p].pc = "ss_ptr"
    /\ LET sessionId == ActiveSessionPointer(proc[p].uid)
       IN  proc' = [proc EXCEPT ![p] =
                IF sessionId # NULL
                THEN [proc[p] EXCEPT !.pc = "ss_get", !.sessId = sessionId]
                ELSE [proc[p] EXCEPT !.pc = "ss_add", !.startedAtMs = clock]]
    /\ UNCHANGED <<plans, tasks, expectedTasks, userDocs, sessions, returned, clock>>

\* mutant: the session the pointer names is reused whenever it is stored
StartSessionGetDocAnyStatus(p) ==
    /\ proc[p].pc = "ss_get"
    /\ LET uid == proc[p].uid
           sid == proc[p].sessId
       IN  /\ proc' = [proc EXCEPT ![p] =
                   IF sid \in SessionIds(uid) THEN Finish(p, "ok", sid, TRUE)
                   ELSE [proc[p] EXCEPT !.pc = "ss_clear", !.prior = "missing"]]
           /\ returned' = IF sid \in SessionIds(uid)
                          THEN [returned EXCEPT ![uid] = @ \cup {sid}]
                          ELSE returned
    /\ UNCHANGED <<plans, tasks, expectedTasks, userDocs, sessions, clock>>

\* const ssnap = await getDoc(sref): reuse the session if it is still running
\* (history: what the call found instead, "missing" or a terminal status)
StartSessionGetDoc(p) ==
    /\ proc[p].pc = "ss_get"
    /\ LET uid == proc[p].uid
           sid == proc[p].sessId
           running == sid \in SessionIds(uid) /\ sessions[uid][sid].status = "running"
           found == IF sid \in SessionIds(uid) THEN sessions[uid][sid].status
                    ELSE "missing"
       IN  /\ proc' = [proc EXCEPT ![p] =
                   IF running THEN Finish(p, "ok", sid, TRUE)
                   ELSE [proc[p] EXCEPT !.pc = "ss_clear", !.prior = found]]
           /\ returned' = IF running THEN [returned EXCEPT ![uid] = @ \cup {sid}]
                          ELSE returned
    /\ UNCHANGED <<plans, tasks, expectedTasks, userDocs, sessions, clock>>

\* await clearActiveSessionPointer().catch(() => {}); const startedAtMs = Date.now()
StartSessionClearStale(p) ==
    /\ proc[p].pc = "ss_clear"
    /\ userDocs' = ClearActiveSessionPointer(userDocs, proc[p].uid)
    /\ proc' = [proc EXCEPT ![p].pc = "ss_add", ![p].startedAtMs = clock]
    /\ UNCHANGED <<plans, tasks, expectedTasks, sessions, returned, clock>>

\* mutant: the insert is guarded, a call that finds a running session adopts it
StartSessionAddDocGuarded(p) ==
    /\ proc[p].pc = "ss_add"
    /\ LET uid == proc[p].uid
       IN  IF RunningSessions(uid) # {}
           THEN /\ proc' = [proc EXCEPT ![p].pc = "ss_setptr",
                       ![p].sessId = CHOOSE s \in RunningSessions(uid) : TRUE]
                /\ UNCHANGED sessions
           ELSE /\ sessions' = [sessions EXCEPT ![uid] =
                       Append(@, NewSessionDoc(proc[p].start, clock))]
                /\ proc' = [proc EXCEPT ![p].pc = "ss_setptr",
                                        ![p].sessId = Len(sessions[uid]) + 1]
    /\ UNCHANGED <<plans, tasks, expectedTasks, userDocs, returned, clock>>

\* const ref = await addDoc(sessionsColRef(uid), payload)
StartSessionAddDoc(p) ==
    /\ proc[p].pc = "ss_add"
    /\ sessions' = [sessions EXCEPT ![proc[p].uid] =
                       Append(@, NewSessionDoc(proc[p].start, clock))]
    /\ proc' = [proc EXCEPT ![p].pc = "ss_setptr",
                            ![p].sessId = Len(sessions[proc[p].uid]) + 1]
    /\ UNCHANGED <<plans, tasks, expectedTasks, userDocs, returned, clock>>

\* await setActiveSessionPointer({ sessionId: ref.id, startedAtMs, mode });
\* return { id: ref.id, reused: false }
StartSessionSetPointer(p) ==
    /\ proc[p].pc = "ss_setptr"
    /\ userDocs' = SetActiveSessionPointer(userDocs, proc[p].uid, proc[p].sessId,
                                           proc[p].startedAtMs, proc[p].start.mode, clock)
    /\ returned' = [returned EXCEPT ![proc[p].uid] = @ \cup {proc[p].sessId}]
    /\ proc' = [proc EXCEPT ![p] = Finish(p, "ok", proc[p].sessId, FALSE)]
    /\ UNCHANGED <<plans, tasks, expectedTasks, sessions, clock>>

\* ------------------------------------------------ endSession, cancelSession

EndSessionCall(p, uid, sessionId, a) ==
    /\ Resting(p)
    /\ proc' = [proc EXCEPT ![p] =
            [IdleProc EXCEPT !.op = "endSession", !.pc = "es_update", !.uid = uid,
                             !.sessId = sessionId, !.dur = a.durationMinutes,
                             !.status = a.status, !.burnoutEnd = a.burnoutScoreAtEnd,
                             !.prior = StatusOf(uid, sessionId)]]
    /\ UNCHANGED <<plans, tasks, expectedTasks, userDocs, sessions, returned, clock>>

\* mutant: cancelSession ends the session as a completed one
CancelSessionCallCompleted(p, uid, sessionId) ==
    /\ Resting(p)
    /\ proc' = [proc EXCEPT ![p] =
            [IdleProc EXCEPT !.op = "cancelSession", !.pc = "es_update", !.uid = uid,
                             !.sessId = sessionId, !.dur = 0,
                             !.status = "completed", !.burnoutEnd = NULLNUM,
                             !.prior = StatusOf(uid, sessionId)]]
    /\ UNCHANGED <<plans, tasks, expectedTasks, userDocs, sessions, returned, clock>>

\* return endSession(sessionId, { durationMinutes: 0, status: "cancelled" })
CancelSessionCall(p, uid, sessionId) ==
    /\ Resting(p)
    /\ proc' = [proc EXCEPT ![p] =
            [IdleProc EXCEPT !.op = "cancelSession", !.pc = "es_update", !.uid = uid,
                             !.sessId = sessionId, !.dur = 0,
                             !.status = "cancelled", !.burnoutEnd = NULLNUM,
                             !.prior = StatusOf(uid, sessionId)]]
    /\ UNCHANGED <<plans, tasks, expectedTasks, userDocs, sessions, returned, clock>>

\* await updateDoc(ref, update): fails when the document does not exist
EndSessionUpdate(p) ==
    /\ proc[p].pc = "es_update"
    /\ LET uid == proc[p].uid
           sid == proc[p].sessId
       IN  IF sid \notin SessionIds(uid)
           THEN /\ proc' = [proc EXCEPT ![p] = Finish(p, "NotFound", NULL, FALSE)]
                /\ UNCHANGED sessions
           ELSE /\ sessions' = [sessions EXCEPT ![uid][sid] =
                        EndUpdate(@, proc[p].dur, proc[p].status, proc[p].burnoutEnd, clock)]
                /\ proc' = [proc EXCEPT ![p].pc = "es_clear"]
    /\ UNCHANGED <<plans, tasks, expectedTasks, userDocs, returned, clock>>

\* await clearActiveSessionPointer().catch(() => {})
EndSessionClearPointer(p) ==
    /\ proc[p].pc = "es_clear"
    /\ userDocs' = ClearActiveSessionPointer(userDocs, proc[p].uid)
    /\ proc' = [proc EXCEPT ![p] = Finish(p, "ok", NULL, FALSE)]
    /\ UNCHANGED <<plans, tasks, expectedTasks, sessions, returned, clock>>

\* await updateDoc(ref, update) fails (StorageError): nothing is written and
\* the error propagates to the caller, the pointer is not touched
EndSessionUpdateFails(p) ==
    /\ proc[p].pc = "es_update"
    /\ proc' = [proc EXCEPT ![p] = Finish(p, "StorageError", NULL, FALSE)]
    /\ UNCHANGED <<plans, tasks, expectedTasks, userDocs, sessions, returned, clock>>

\* mutant: the failure of the pointer-clearing write reaches the caller
EndSessionClearPointerThrows(p) ==
    /\ proc[p].pc = "es_clear"
    /\ proc' = [proc EXCEPT ![p] = Finish(p, "StorageError", NULL, FALSE)]
    /\ UNCHANGED <<plans, tasks, expectedTasks, userDocs, sessions, returned, clock>>

\* clearActiveSessionPointer() fails and .catch(() => {}) drops the error: the
\* pointer keeps what it held and the call returns normally
EndSessionClearPointerFails(p) ==
    /\ proc[p].pc = "es_clear"
    /\ proc' = [proc EXCEPT ![p] = Finish(p, "ok", NULL, FALSE)]
    /\ UNCHANGED <<plans, tasks, expectedTasks, userDocs, sessions, returned, clock>>

\* a call ends and keeps the plan and task it was about and what it returned
FinishWith(p, outcome, out) ==
    [Finish(p, outcome, NULL, FALSE) EXCEPT
        !.planId = proc[p].planId, !.taskId = proc[p].taskId,
        !.tasksRead = proc[p].tasksRead, !.out = out]

\* const planSnap = await getDoc(planRef), then the two checks every call
\* about a plan makes: existence, then ownership
PlanCheck(uid, planId) ==
    IF planId \notin PlanIds THEN "NotFound"
    ELSE IF plans[planId].userId # uid THEN "Forbidden"
    ELSE "ok"

\* mutant: the owner of the plan is not looked at
PlanCheckExistsOnly(uid, planId) ==
    IF planId \notin PlanIds THEN "NotFound" ELSE "ok"

\* ---------------------------------------------------------------- insights

\* The calendar: timestamps count ticks, a calendar day is TicksPerDay ticks
\* long, and the date key [year, month, day].join("-") of a timestamp is the
\* number of its day.
DayOf(ts) == ts \div TicksPerDay

\* new Date(now.getFullYear(), now.getMonth(), now.getDate() - back, 0, 0, 0, 0)
MidnightBefore(now, back) == (DayOf(now) - back) * TicksPerDay

\* mutant: sessions of every mode are counted
QualifiesAnyMode(s) == s.status = "completed"

\* if (s.status !== "completed") return; if (s.mode !== "pomodoro") return;
Qualifies(s) == s.status = "completed" /\ s.mode = "pomodoro"

\* query(sessionsColRef(uid), where("startedAt", ">=", start))
StartedSince(log, start) == SelectSeq(log, LAMBDA s : s.startedAt >= start)

\* the sum over a list of sessions of Number(s[field]) || 0
RECURSIVE SumField(_, _)
SumField(log, field) ==
    IF log = <<>> THEN 0
    ELSE NumberOr(Head(log)[field], 0) + SumField(Tail(log), field)

\* the qualifying sessions of a list that started on a day
FocusOn(log, day) ==
    SelectSeq(log, LAMBDA s : Qualifies(s) /\ DayOf(s.startedAt) = day)

\* the days on which a qualifying session of a list started
FocusDays(log) ==
    {DayOf(log[i].startedAt) : i \in {j \in 1 .. Len(log) : Qualifies(log[j])}}

\* getTodaySessionStats over the session log of the user
TodaySessionStats(log, now) ==
    LET today == SelectSeq(StartedSince(log, MidnightBefore(now, 0)),
                           LAMBDA s : s.startedAt < MidnightBefore(now, 0 - 1))
        counted == SelectSeq(today, Qualifies)
    IN  [totalMinutes |-> SumField(counted, "durationMinutes"),
         sessionsCount |-> Len(counted)]

\* for (let i = 0; i < 365; i++) { if (daysWithSessions.has(key)) streak++;
\* else break; }
RECURSIVE CountStreak(_, _, _)
CountStreak(daysWithSessions, today, i) ==
    IF i < 365 /\ (today - i) \in daysWithSessions
    THEN 1 + CountStreak(daysWithSessions, today, i + 1)
    ELSE 0

\* the loop without its break: the days with a session are counted
RECURSIVE CountStreakNoBreak(_, _, _)
CountStreakNoBreak(daysWithSessions, today, i) ==
    IF i >= 365 \/ \A d \in daysWithSessions : d > today - i THEN 0
    ELSE (IF (today - i) \in daysWithSessions THEN 1 ELSE 0)
         + CountStreakNoBreak(daysWithSessions, today, i + 1)

\* mutant: getStreak counts the days with a session, consecutive or not
StreakNoBreak(log, now, lookbackDays) ==
    LET snap == StartedSince(log, MidnightBefore(now, lookbackDays))
    IN  [streak |-> CountStreakNoBreak(FocusDays(snap), DayOf(now), 0)]

\* getStreak({ lookbackDays })
Streak(log, now, lookbackDays) ==
    LET snap == StartedSince(log, MidnightBefore(now, lookbackDays))
    IN  [streak |-> CountStreak(FocusDays(snap), DayOf(now), 0)]

\* getWeeklyStats: minutes by day, for the days that have a qualifying session
WeeklyStats(log, now) ==
    LET snap == StartedSince(log, MidnightBefore(now, 6))
    IN  [day \in FocusDays(snap) |-> SumField(FocusOn(snap, day), "durationMinutes")]

\* getSessionsSinceDays(days)
SessionsSinceDays(log, now, days) == StartedSince(log, MidnightBefore(now, days - 1))

\* groupFocusMinutesByDay(sessions, days): the keys of the last days days,
\* oldest first, each with its minutes, 0 for a day without any
GroupFocusMinutesByDay(sess, now, days) ==
    LET keys == [i \in 1 .. days |-> DayOf(now) - (days - i)]
    IN  [keys |-> keys,
         map |-> [key \in {keys[i] : i \in 1 .. days} |->
                      SumField(FocusOn(sess, key), "durationMinutes")]]

\* JavaScript numbers are IEEE 754 doubles, of 53 significant bits. A
\* positive double is kept as [sig, exp]: sig = <<s1, s2, s3>> are three
\* limbs of 18 bits that read as one number of 54 bits, whose top bit is 1
\* and whose last bit is 0, and the value is (that number / 2^54) * 2^exp.
\* The double 0 has sig = <<0, 0, 0>>. Sums of minutes are integers far below
\* 2^53 and so exact; a quotient and a product are rounded to the nearest
\* double. (The integers of the model checker have 32 bits, hence the limbs.)
Limb == 2 ^ 18

\* round to nearest, ties to even: the double nearest to
\* (s1 s2 s3 + a fraction) / 2^54 * 2^exp, where s1 s2 s3 has its top bit set
\* and sticky tells whether the fraction is more than 0
RoundNearestEven(sig, exp, sticky) ==
    LET half == sig[3] % 2
        odd == (sig[3] \div 2) % 2
        up == half = 1 /\ (sticky \/ odd = 1)
        r3 == sig[3] - half + (IF up THEN 2 ELSE 0)
        r2 == sig[2] + r3 \div Limb
        r1 == sig[1] + r2 \div Limb
    IN  IF r1 = Limb THEN [sig |-> <<Limb \div 2, 0, 0>>, exp |-> exp + 1]
        ELSE [sig |-> <<r1, r2 % Limb, r3 % Limb>>, exp |-> exp]

\* num / den = (num' / den') * 2^exp with 1/2 <= num' / den' < 1
RECURSIVE Normalise(_, _, _)
Normalise(num, den, exp) ==
    IF num >= den THEN Normalise(num, 2 * den, exp + 1)
    ELSE IF 2 * num < den THEN Normalise(2 * num, den, exp - 1)
         ELSE [num |-> num, den |-> den, exp |-> exp]

\* a / b of two integers a >= 0 and b > 0, as JavaScript computes it: long
\* division, limb after limb, then the rounding
FloatDiv(a, b) ==
    IF a = 0 THEN [sig |-> <<0, 0, 0>>, exp |-> 0]
    ELSE LET n == Normalise(a, b, 0)
             s1 == (n.num * Limb) \div n.den
             rem1 == (n.num * Limb) % n.den
             s2 == (rem1 * Limb) \div n.den
             rem2 == (rem1 * Limb) % n.den
             s3 == (rem2 * Limb) \div n.den
             rem3 == (rem2 * Limb) % n.den
         IN  RoundNearestEven(<<s1, s2, s3>>, n.exp, rem3 # 0)

\* x * c of a double x and an integer c in 1 .. 4095, as JavaScript computes
\* it: the exact product, limb after limb, shifted back to 54 bits, then the
\* rounding
FloatTimes(x, c) ==
    IF x.sig[1] = 0 THEN x
    ELSE LET t3 == x.sig[3] * c
             t2 == x.sig[2] * c + t3 \div Limb
             t1 == x.sig[1] * c + t2 \div Limb
             m2 == t2 % Limb
             m3 == t3 % Limb
             shift == CHOOSE k \in 0 .. 12 : t1 \div (2 ^ k) \in Limb \div 2 .. Limb - 1
             low == 2 ^ shift
             high == Limb \div low
         IN  RoundNearestEven(<<t1 \div low,
                                (t1 % low) * high + m2 \div low,
                                (m2 % low) * high + m3 \div low>>,
                              x.exp + shift, m3 % low # 0)

\* Math.round(x) of a double 0 <= x < 2^17: the integer nearest to x, the
\* greater one when x lies halfway between two
MathRound(x) ==
    IF x.sig[1] = 0 \/ x.exp < 0 THEN 0
    ELSE LET halves == x.sig[1] \div (2 ^ (17 - x.exp))
         IN  (halves \div 2) + (halves % 2)

\* getAdvancedInsights({ days })
AdvancedInsights(log, now, days) ==
    LET counted == SelectSeq(StartedSince(log, MidnightBefore(now, days - 1)), Qualifies)
        totalActual == SumField(counted, "durationMinutes")
        totalPlanned == SumField(counted, "plannedMinutes")
        totalScaled == SumField(counted, "scaledMinutes")
        scored == SelectSeq(counted, LAMBDA s : s.burnoutScoreAtStart # NULLNUM)
        named == SelectSeq(counted, LAMBDA s : s.subject \notin {"null", ""})
    IN  [totalActual |-> totalActual,
         totalPlanned |-> totalPlanned,
         totalScaled |-> totalScaled,
         productivity |->
             IF totalPlanned > 0
             THEN MathRound(FloatTimes(FloatDiv(totalActual, totalPlanned), 100))
             ELSE 0,
         focusEfficiency |->
             IF totalScaled > 0
             THEN MathRound(FloatTimes(FloatDiv(totalActual, totalScaled), 100))
             ELSE 0,
         avgBurnout |->
             IF scored # <<>>
             THEN MathRound(FloatDiv(SumField(scored, "burnoutScoreAtStart"),
                                     Len(scored)))
             ELSE 0,
         subjectMap |->
             [subject \in {named[i].subject : i \in 1 .. Len(named)} |->
                 SumField(SelectSeq(named, LAMBDA s : s.subject = subject),
                          "durationMinutes")]]

\* the record of a call that made its one query and computed its result
Answered(uid, op, days, out) ==
    [IdleProc EXCEPT !.op = op, !.pc = "done", !.uid = uid, !.days = days,
                     !.outcome = "ok", !.out = out]

\* getTodaySessionStats(): the query and the sums
GetTodaySessionStats(p, uid) ==
    /\ Resting(p)
    /\ proc' = [proc EXCEPT ![p] =
            Answered(uid, "getTodaySessionStats", 0,
                     TodaySessionStats(sessions[uid], clock))]
    /\ UNCHANGED <<plans, tasks, expectedTasks, userDocs, sessions, returned, clock>>

\* getStreak({ lookbackDays }): the query and the count
GetStreak(p, uid, lookbackDays) ==
    /\ Resting(p)
    /\ proc' = [proc EXCEPT ![p] =
            Answered(uid, "getStreak", lookbackDays,
                     Streak(sessions[uid], clock, lookbackDays))]
    /\ UNCHANGED <<plans, tasks, expectedTasks, userDocs, sessions, returned, clock>>

\* getWeeklyStats(): the query and the sums by day
GetWeeklyStats(p, uid) ==
    /\ Resting(p)
    /\ proc' = [proc EXCEPT ![p] =
            Answered(uid, "getWeeklyStats", 0, WeeklyStats(sessions[uid], clock))]
    /\ UNCHANGED <<plans, tasks, expectedTasks, userDocs, sessions, returned, clock>>

\* groupFocusMinutesByDay(await getSessionsSinceDays(days), days)
GroupFocus(p, uid, days) ==
    /\ Resting(p)
    /\ proc' = [proc EXCEPT ![p] =
            Answered(uid, "groupFocusMinutesByDay", days,
                     GroupFocusMinutesByDay(
                         SessionsSinceDays(sessions[uid], clock, days), clock, days))]
    /\ UNCHANGED <<plans, tasks, expectedTasks, userDocs, sessions, returned, clock>>

\* getAdvancedInsights({ days }): the query, the totals and the ratios
GetAdvancedInsights(p, uid, days) ==
    /\ Resting(p)
    /\ proc' = [proc EXCEPT ![p] =
            Answered(uid, "getAdvancedInsights", days,
                     AdvancedInsights(sessions[uid], clock, days))]
    /\ UNCHANGED <<plans, tasks, expectedTasks, userDocs, sessions, returned, clock>>

\* ------------------------------------------------------------ getBurnoutScore

\* mutant: low energy weighs 20
BurnoutScoreOfLowEnergy20(energy, done, total, streak, totalMinutes) ==
    LET score == (IF energy # NOTNUM /\ energy <= 2 THEN 20
                  ELSE IF energy = 3 THEN 10 ELSE 0)
               + (IF total # 0 /\ 10 * done < 4 * total THEN 25
                  ELSE IF total # 0 /\ 10 * done < 7 * total THEN 10 ELSE 0)
               + (IF streak = 0 THEN 20 ELSE 0)
               + (IF totalMinutes > 180 THEN 20
                  ELSE IF totalMinutes > 120 THEN 10 ELSE 0)
        clamped == Max(0, Min(100, score))
    IN  [score |-> clamped,
         status |-> IF clamped > 60 THEN "Burnout Risk"
                    ELSE IF clamped > 30 THEN "Fatigued" ELSE "Healthy",
         energy |-> energy, done |-> done, total |-> total,
         streak |-> streak, totalMinutes |-> totalMinutes]

\* the scoring of getBurnoutScore. completion = total ? done / total : 1 is
\* kept as the pair done, total, and completion < 0.4 is 10 * done < 4 * total;
\* an energy that is not a number (NOTNUM) passes neither comparison.
BurnoutScoreOf(energy, done, total, streak, totalMinutes) ==
    LET score == (IF energy # NOTNUM /\ energy <= 2 THEN 25
                  ELSE IF energy = 3 THEN 10 ELSE 0)
               + (IF total # 0 /\ 10 * done < 4 * total THEN 25
                  ELSE IF total # 0 /\ 10 * done < 7 * total THEN 10 ELSE 0)
               + (IF streak = 0 THEN 20 ELSE 0)
               + (IF totalMinutes > 180 THEN 20
                  ELSE IF totalMinutes > 120 THEN 10 ELSE 0)
        clamped == Max(0, Min(100, score))
    IN  [score |-> clamped,
         status |-> IF clamped > 60 THEN "Burnout Risk"
                    ELSE IF clamped > 30 THEN "Fatigued" ELSE "Healthy",
         energy |-> energy, done |-> done, total |-> total,
         streak |-> streak, totalMinutes |-> totalMinutes]

\* Promise.all has resolved: getActivePlanWithTasks gave the plan planId
\* (NULL for none) and its tasks; Number(plan?.input?.energyLevel ?? 3)
BurnoutReturn(p, planId, planTasks) ==
    LET energy == IF planId = NULL \/ plans[planId].input = NULLNUM THEN 3
                  ELSE plans[planId].input
        done == Len(SelectSeq(planTasks, LAMBDA t : t.done))
    IN  [FinishWith(p, "ok", BurnoutScoreOf(energy, done, Len(planTasks),
                                           proc[p].streak, proc[p].totalMinutes))
         EXCEPT !.rid = planId, !.planId = planId]

GetBurnoutScoreCall(p, uid) ==
    /\ Resting(p)
    /\ proc' = [proc EXCEPT ![p] =
            [IdleProc EXCEPT !.op = "getBurnoutScore", !.pc = "bs_today", !.uid = uid]]
    /\ UNCHANGED <<plans, tasks, expectedTasks, userDocs, sessions, returned, clock>>

\* the query of getTodaySessionStats() answers
BurnoutReadToday(p) ==
    /\ proc[p].pc = "bs_today"
    /\ proc' = [proc EXCEPT ![p].pc = "bs_streak",
            ![p].totalMinutes =
                TodaySessionStats(sessions[proc[p].uid], clock).totalMinutes]
    /\ UNCHANGED <<plans, tasks, expectedTasks, userDocs, sessions, returned, clock>>

\* the query of getStreak() answers; getActivePlanWithTasks() goes on
BurnoutReadStreak(p) ==
    /\ proc[p].pc = "bs_streak"
    /\ proc' = [proc EXCEPT ![p].pc = "gap_ptr",
            ![p].streak = Streak(sessions[proc[p].uid], clock, 45).streak]
    /\ UNCHANGED <<plans, tasks, expectedTasks, userDocs, sessions, returned, clock>>

\* ------------------------------------------ getActivePlan, setOnlyPlanActive

\* getActivePlanPointer(): snap.data()?.activePlanId || null, null too when
\* the user document does not exist
ActivePlanPointer(uid) ==
    IF userDocs[uid].activePlanId = ABSENT THEN NULL ELSE userDocs[uid].activePlanId

\* plans.sort((a, b) => b.createdAt - a.createdAt); plans[0]: a plan of the
\* user no other plan of the user is newer than. The query returns the plans
\* in the order of their generated ids, so any of the newest can come first.
NewestPlansOf(uid) ==
    {id \in PlansOf(uid) :
        \A other \in PlansOf(uid) : plans[other].createdAt <= plans[id].createdAt}

\* getActivePlan returns planId (NULL for { plan: null }) to its caller:
\* to the tab, to getPlans, or to getActivePlanWithTasks under getBurnoutScore.
\* history: tier is the return statement taken ("pointer", "active", "heal",
\* or "empty" for { plan: null }); prev and prior are kept (see the call)
ReturnPlan(p, planId, tier) ==
    IF proc[p].op = "getActivePlan"
    THEN [FinishWith(p, "ok", <<>>) EXCEPT !.rid = planId, !.planId = planId,
                                          !.tier = tier, !.prev = proc[p].prev]
    ELSE IF proc[p].op = "getPlans"
         THEN [proc[p] EXCEPT !.pc = "gp_query", !.rid = planId, !.tier = tier]
         ELSE IF planId = NULL THEN BurnoutReturn(p, NULL, <<>>)
              ELSE [proc[p] EXCEPT !.pc = "gpt_get", !.rid = planId,
                                   !.planId = planId, !.tier = tier]

\* history: when the tab's previous call was a getActivePlan of the same user
\* that returned a plan, prev is that plan and prior the tier it came from
GetActivePlanCall(p, uid) ==
    /\ Resting(p)
    /\ LET follows == /\ proc[p].pc = "done" /\ proc[p].op = "getActivePlan"
                      /\ proc[p].uid = uid /\ proc[p].outcome = "ok"
                      /\ proc[p].rid # NULL
       IN  proc' = [proc EXCEPT ![p] =
               [IdleProc EXCEPT !.op = "getActivePlan", !.pc = "gap_ptr", !.uid = uid,
                                !.prev = IF follows THEN proc[p].rid ELSE NULL,
                                !.prior = IF follows THEN proc[p].tier ELSE "none"]]
    /\ UNCHANGED <<plans, tasks, expectedTasks, userDocs, sessions, returned, clock>>

\* 1) const activePlanId = await getActivePlanPointer().catch(() => null)
GapReadPointer(p) ==
    /\ proc[p].pc = "gap_ptr"
    /\ LET activePlanId == ActivePlanPointer(proc[p].uid)
       IN  proc' = [proc EXCEPT ![p] =
                IF activePlanId # NULL
                THEN [proc[p] EXCEPT !.pc = "gap_get", !.planId = activePlanId]
                ELSE [proc[p] EXCEPT !.pc = "gap_active"]]
    /\ UNCHANGED <<plans, tasks, expectedTasks, userDocs, sessions, returned, clock>>

\* const psnap = await getDoc(pref): the caller's own plan is returned, after
\* a repair when it is not active; any other pointer falls through
GapGetPlan(p) ==
    /\ proc[p].pc = "gap_get"
    /\ LET planId == proc[p].planId
       IN  proc' = [proc EXCEPT ![p] =
                IF planId \in PlanIds /\ plans[planId].userId = proc[p].uid
                THEN IF plans[planId].active # TRUE
                     THEN [proc[p] EXCEPT !.pc = "heal_get", !.tier = "pointer"]
                     ELSE ReturnPlan(p, planId, "pointer")
                ELSE [proc[p] EXCEPT !.pc = "gap_active"]]
    /\ UNCHANGED <<plans, tasks, expectedTasks, userDocs, sessions, returned, clock>>

\* setOnlyPlanActive: const planSnap = await getDoc(planRef). "Plan not
\* found" is swallowed by the pointer tier and thrown by the self-heal tier.
HealGet(p) ==
    /\ proc[p].pc = "heal_get"
    /\ proc' = [proc EXCEPT ![p] =
            IF proc[p].planId \in PlanIds THEN [proc[p] EXCEPT !.pc = "heal_query"]
            ELSE IF proc[p].tier = "pointer"
                 THEN ReturnPlan(p, proc[p].planId, "pointer")
                 ELSE FinishWith(p, "NotFound", <<>>)]
    /\ UNCHANGED <<plans, tasks, expectedTasks, userDocs, sessions, returned, clock>>

\* setOnlyPlanActive: const activeSnap = await getDocs(activeQ)
HealQuery(p) ==
    /\ proc[p].pc = "heal_query"
    /\ proc' = [proc EXCEPT ![p].pc = "heal_commit",
                            ![p].snap = ActivePlansOf(proc[p].uid)]
    /\ UNCHANGED <<plans, tasks, expectedTasks, userDocs, sessions, returned, clock>>

\* setOnlyPlanActive: await batch.commit()
HealCommit(p) ==
    /\ proc[p].pc = "heal_commit"
    /\ plans' = Activate(DeactivateAll(plans, proc[p].snap), proc[p].planId)
    /\ proc' = [proc EXCEPT ![p].pc = "heal_ptr"]
    /\ UNCHANGED <<tasks, expectedTasks, userDocs, sessions, returned, clock>>

\* setOnlyPlanActive: await setActivePlanPointer(planId); back in
\* getActivePlan the pointer tier returns, the self-heal tier goes on
HealSetPointer(p) ==
    /\ proc[p].pc = "heal_ptr"
    /\ userDocs' = SetActivePlanPointer(userDocs, proc[p].uid, proc[p].planId)
    /\ proc' = [proc EXCEPT ![p] =
            IF proc[p].tier = "pointer" THEN ReturnPlan(p, proc[p].planId, "pointer")
            ELSE [proc[p] EXCEPT !.pc = "gap_ptr2"]]
    /\ UNCHANGED <<plans, tasks, expectedTasks, sessions, returned, clock>>

\* 2) const snap = await getDocs(qActive), limit(1): any one active plan of
\* the user; without one, on to the self-heal
GapQueryActive(p) ==
    /\ proc[p].pc = "gap_active"
    /\ IF ActivePlansOf(proc[p].uid) # {}
       THEN \E d \in ActivePlansOf(proc[p].uid) :
                proc' = [proc EXCEPT ![p].pc = "gap_fixptr", ![p].planId = d]
       ELSE proc' = [proc EXCEPT ![p].pc = "gap_any"]
    /\ UNCHANGED <<plans, tasks, expectedTasks, userDocs, sessions, returned, clock>>

\* mutant: the fallback tier returns the plan without repairing the pointer
GapFixPointerSkipped(p) ==
    /\ proc[p].pc = "gap_fixptr"
    /\ proc' = [proc EXCEPT ![p] = ReturnPlan(p, proc[p].planId, "active")]
    /\ UNCHANGED <<plans, tasks, expectedTasks, userDocs, sessions, returned, clock>>

\* await setActivePlanPointer(d.id).catch(() => {}); return { plan: d }
GapFixPointer(p) ==
    /\ proc[p].pc = "gap_fixptr"
    /\ userDocs' = SetActivePlanPointer(userDocs, proc[p].uid, proc[p].planId)
    /\ proc' = [proc EXCEPT ![p] = ReturnPlan(p, proc[p].planId, "active")]
    /\ UNCHANGED <<plans, tasks, expectedTasks, sessions, returned, clock>>

\* mutant: without an active plan getActivePlan gives up: { plan: null }
GapQueryAnyGivesUp(p) ==
    /\ proc[p].pc = "gap_any"
    /\ proc' = [proc EXCEPT ![p] = ReturnPlan(p, NULL, "empty")]
    /\ UNCHANGED <<plans, tasks, expectedTasks, userDocs, sessions, returned, clock>>

\* 3) const anySnap = await getDocs(qAny): { plan: null } when the user has
\* no plan, else the newest plan is made the only active one
GapQueryAny(p) ==
    /\ proc[p].pc = "gap_any"
    /\ IF PlansOf(proc[p].uid) = {}
       THEN proc' = [proc EXCEPT ![p] = ReturnPlan(p, NULL, "empty")]
       ELSE \E newest \in NewestPlansOf(proc[p].uid) :
                proc' = [proc EXCEPT ![p].pc = "heal_get", ![p].planId = newest,
                                     ![p].tier = "heal"]
    /\ UNCHANGED <<plans, tasks, expectedTasks, userDocs, sessions, returned, clock>>

\* await setActivePlanPointer(newest.id); return { plan: newest }
GapSetPointerAgain(p) ==
    /\ proc[p].pc = "gap_ptr2"
    /\ userDocs' = SetActivePlanPointer(userDocs, proc[p].uid, proc[p].planId)
    /\ proc' = [proc EXCEPT ![p] = ReturnPlan(p, proc[p].planId, "heal")]
    /\ UNCHANGED <<plans, tasks, expectedTasks, sessions, returned, clock>>

\* ---------------------------------------------------------------- getPlans

\* limit(Math.max(50, limitCount * 5))
PageLimit(limitCount) == Max(50, limitCount * 5)

\* the subsets of S that have k elements
RECURSIVE Subsets(_, _)
Subsets(S, k) ==
    IF k = 0 THEN {{}}
    ELSE UNION {{X \cup {x} : X \in Subsets({y \in S : y > x}, k - 1)} : x \in S}

\* what getDocs(qPlans) can return: the user's plans, or PageLimit of them.
\* The query has no orderBy, so the store pages by generated document id and
\* any PageLimit of the plans can be the page.
PlanPages(uid, limitCount) ==
    LET over == Cardinality(PlansOf(uid)) - PageLimit(limitCount)
    IN  IF over <= 0 THEN {PlansOf(uid)}
        ELSE {PlansOf(uid) \ X : X \in Subsets(PlansOf(uid), over)}

\* the two stable sorts of getPlans: active plans first, newer before older
\* within each group, and equal ones in array order (the page in query
\* order, then the plan that was pushed, which getActivePlan returned with
\* active: true), which makes the order of the result a total one.
SortPlans(ids, pushed) ==
    LET IsActive(i) == i \in pushed \/ plans[i].active = TRUE
        Before(i, j) ==
            \/ IsActive(i) /\ ~IsActive(j)
            \/ /\ IsActive(i) = IsActive(j)
               /\ \/ plans[i].createdAt > plans[j].createdAt
                  \/ /\ plans[i].createdAt = plans[j].createdAt
                     /\ i \notin pushed /\ (j \in pushed \/ i < j)
    IN  SortSeq(SelectSeq([i \in 1 .. Len(plans) |-> i], LAMBDA i : i \in ids), Before)

\* plans.slice(0, limitCount): a negative end counts from the end of the array
Slice(plansArray, limitCount) ==
    SubSeq(plansArray, 1,
           IF limitCount < 0 THEN Max(0, Len(plansArray) + limitCount)
           ELSE Min(limitCount, Len(plansArray)))

\* getPlans({ limitCount })
GetPlansLimitCall(p, uid, limitCount) ==
    /\ Resting(p)
    /\ proc' = [proc EXCEPT ![p] =
            [IdleProc EXCEPT !.op = "getPlans", !.pc = "gap_ptr", !.uid = uid,
                             !.limitCount = limitCount]]
    /\ UNCHANGED <<plans, tasks, expectedTasks, userDocs, sessions, returned, clock>>

\* getPlans(): limitCount = 10
GetPlansCall(p, uid) == GetPlansLimitCall(p, uid, 10)

\* mutant: the plan getActivePlan returned is not added to the page
GetPlansQueryNoMerge(p) ==
    /\ proc[p].pc = "gp_query"
    /\ \E page \in PlanPages(proc[p].uid, proc[p].limitCount) :
          proc' = [proc EXCEPT ![p] =
              [FinishWith(p, "ok", Slice(SortPlans(page, {}), proc[p].limitCount))
               EXCEPT !.rid = proc[p].rid, !.limitCount = proc[p].limitCount,
                      !.snap = page]]
    /\ UNCHANGED <<plans, tasks, expectedTasks, userDocs, sessions, returned, clock>>

\* const snap = await getDocs(qPlans); the push of the active plan the page
\* lacks; the sorts; plans.slice(0, limitCount) (history: snap is the page)
GetPlansQuery(p) ==
    /\ proc[p].pc = "gp_query"
    /\ \E page \in PlanPages(proc[p].uid, proc[p].limitCount) :
          LET pushed == IF proc[p].rid # NULL /\ proc[p].rid \notin page
                        THEN {proc[p].rid} ELSE {}
          IN  proc' = [proc EXCEPT ![p] =
                  [FinishWith(p, "ok", Slice(SortPlans(page \cup pushed, pushed),
                                             proc[p].limitCount))
                   EXCEPT !.rid = proc[p].rid, !.limitCount = proc[p].limitCount,
                          !.snap = page]]
    /\ UNCHANGED <<plans, tasks, expectedTasks, userDocs, sessions, returned, clock>>

\* ------------------------------------------------------------ getPlanTasks

TaskIds(planId) == 1 .. Len(tasks[planId])

\* tasks.sort((a, b) => (Number(a.order) || 0) - (Number(b.order) || 0)) over
\* the documents with their ids; tasks of equal order stay in query order
RECURSIVE SortByOrder(_, _)
SortByOrder(planId, ids) ==
    IF ids = {} THEN <<>>
    ELSE LET Key(i) == NumberOr0(tasks[planId][i].order)
             first == CHOOSE i \in ids :
                          \A j \in ids : Key(i) < Key(j) \/ (Key(i) = Key(j) /\ i <= j)
         IN  <<[id |-> first, done |-> tasks[planId][first].done,
                order |-> tasks[planId][first].order]>>
             \o SortByOrder(planId, ids \ {first})

GetPlanTasksCall(p, uid, planId) ==
    /\ Resting(p)
    /\ proc' = [proc EXCEPT ![p] =
            [IdleProc EXCEPT !.op = "getPlanTasks", !.pc = "gpt_get",
                             !.uid = uid, !.planId = planId]]
    /\ UNCHANGED <<plans, tasks, expectedTasks, userDocs, sessions, returned, clock>>

\* mutant: the tasks are read whoever owns the plan
GetPlanTasksGetUnchecked(p) ==
    /\ proc[p].pc = "gpt_get"
    /\ LET check == PlanCheckExistsOnly(proc[p].uid, proc[p].planId)
       IN  proc' = [proc EXCEPT ![p] =
                IF check # "ok" THEN FinishWith(p, check, <<>>)
                ELSE [proc[p] EXCEPT !.pc = "gpt_tasks"]]
    /\ UNCHANGED <<plans, tasks, expectedTasks, userDocs, sessions, returned, clock>>

\* const planSnap = await getDoc(planRef); the existence and ownership checks
GetPlanTasksGet(p) ==
    /\ proc[p].pc = "gpt_get"
    /\ LET check == PlanCheck(proc[p].uid, proc[p].planId)
       IN  proc' = [proc EXCEPT ![p] =
                IF check # "ok" THEN FinishWith(p, check, <<>>)
                ELSE [proc[p] EXCEPT !.pc = "gpt_tasks"]]
    /\ UNCHANGED <<plans, tasks, expectedTasks, userDocs, sessions, returned, clock>>

\* const tSnap = await getDocs(qTasks); the sort; return tasks, to the tab
\* or to getActivePlanWithTasks under getBurnoutScore
GetPlanTasksQuery(p) ==
    /\ proc[p].pc = "gpt_tasks"
    /\ LET sorted == SortByOrder(proc[p].planId, TaskIds(proc[p].planId))
       IN  proc' = [proc EXCEPT ![p] =
                IF proc[p].op = "getBurnoutScore"
                THEN BurnoutReturn(p, proc[p].planId, sorted)
                ELSE [FinishWith(p, "ok", sorted) EXCEPT !.tasksRead = TRUE]]
    /\ UNCHANGED <<plans, tasks, expectedTasks, userDocs, sessions, returned, clock>>

\* -------------------------------------------------------------- setTaskDone

SetTaskDoneCall(p, uid, planId, taskId, done) ==
    /\ Resting(p)
    /\ proc' = [proc EXCEPT ![p] =
            [IdleProc EXCEPT !.op = "setTaskDone", !.pc = "std_get", !.uid = uid,
                             !.planId = planId, !.taskId = taskId, !.done = done]]
    /\ UNCHANGED <<plans, tasks, expectedTasks, userDocs, sessions, returned, clock>>

\* mutant: setTaskDone writes whoever owns the plan
SetTaskDoneGetUnchecked(p) ==
    /\ proc[p].pc = "std_get"
    /\ LET check == PlanCheckExistsOnly(proc[p].uid, proc[p].planId)
       IN  proc' = [proc EXCEPT ![p] =
                IF check # "ok" THEN FinishWith(p, check, <<>>)
                ELSE [proc[p] EXCEPT !.pc = "std_update"]]
    /\ UNCHANGED <<plans, tasks, expectedTasks, userDocs, sessions, returned, clock>>

\* const planSnap = await getDoc(planRef); the existence and ownership checks
SetTaskDoneGet(p) ==
    /\ proc[p].pc = "std_get"
    /\ LET check == PlanCheck(proc[p].uid, proc[p].planId)
       IN  proc' = [proc EXCEPT ![p] =
                IF check # "ok" THEN FinishWith(p, check, <<>>)
                ELSE [proc[p] EXCEPT !.pc = "std_update"]]
    /\ UNCHANGED <<plans, tasks, expectedTasks, userDocs, sessions, returned, clock>>

\* mutant: un-doing a task leaves the time of its completion in place
SetTaskDoneUpdateKeepsTime(p) ==
    /\ proc[p].pc = "std_update"
    /\ LET planId == proc[p].planId
           taskId == proc[p].taskId
       IN  IF taskId \notin TaskIds(planId)
           THEN /\ proc' = [proc EXCEPT ![p] = FinishWith(p, "NotFound", <<>>)]
                /\ UNCHANGED tasks
           ELSE /\ tasks' = [tasks EXCEPT ![planId][taskId] =
                        [@ EXCEPT !.done = proc[p].done,
                                  !.completedAt = IF proc[p].done THEN clock ELSE @]]
                /\ proc' = [proc EXCEPT ![p] = FinishWith(p, "ok", <<>>)]
    /\ UNCHANGED <<plans, expectedTasks, userDocs, sessions, returned, clock>>

\* await updateDoc(taskRef, { done: !!done, completedAt: done ?
\* serverTimestamp() : null }): fails when the task does not exist
SetTaskDoneUpdate(p) ==
    /\ proc[p].pc = "std_update"
    /\ LET planId == proc[p].planId
           taskId == proc[p].taskId
       IN  IF taskId \notin TaskIds(planId)
           THEN /\ proc' = [proc EXCEPT ![p] = FinishWith(p, "NotFound", <<>>)]
                /\ UNCHANGED tasks
           ELSE /\ tasks' = [tasks EXCEPT ![planId][taskId] =
                        [@ EXCEPT !.done = proc[p].done,
                                  !.completedAt = IF proc[p].done THEN clock ELSE NULL]]
                /\ proc' = [proc EXCEPT ![p] = FinishWith(p, "ok", <<>>)]
    /\ UNCHANGED <<plans, expectedTasks, userDocs, sessions, returned, clock>>

\* ------------------------------------------------------ optimizeTasksInPlan

\* the fields batch.update writes over a task document (but the note, which
\* no code reads)
OptimizedTask(doc, u, now) ==
    [title |-> doc.title, done |-> doc.done, completedAt |-> doc.completedAt,
     plannedMinutes |-> NumberOr(u.plannedMinutes, 25),
     priority |-> NumberOr(u.priority, 3),
     order |-> NumberOr(u.order, 0),
     optimizedAt |-> now]

\* the entries of updates that name a task: if (!u?.taskId) return
NamedUpdates(items) == SelectSeq(items, LAMBDA u : u.taskId # NULL)

\* the batch applied to the tasks of one plan, entry after entry
RECURSIVE ApplyUpdates(_, _, _)
ApplyUpdates(docs, items, now) ==
    IF items = <<>> THEN docs
    ELSE ApplyUpdates([docs EXCEPT ![Head(items).taskId] =
                           OptimizedTask(@, Head(items), now)],
                      Tail(items), now)

OptimizeCall(p, uid, planId, updates) ==
    /\ Resting(p)
    /\ proc' = [proc EXCEPT ![p] =
            [IdleProc EXCEPT !.op = "optimizeTasksInPlan", !.pc = "opt_get",
                             !.uid = uid, !.planId = planId, !.updates = updates]]
    /\ UNCHANGED <<plans, tasks, expectedTasks, userDocs, sessions, returned, clock>>

\* const planSnap = await getDoc(planRef); the existence and ownership
\* checks, then the check that updates is a non-empty list
OptimizeGet(p) ==
    /\ proc[p].pc = "opt_get"
    /\ LET check == PlanCheck(proc[p].uid, proc[p].planId)
           updates == proc[p].updates
       IN  proc' = [proc EXCEPT ![p] =
                IF check # "ok" THEN FinishWith(p, check, <<>>)
                ELSE IF ~updates.isArray \/ updates.items = <<>>
                     THEN FinishWith(p, "ValidationError", <<>>)
                     ELSE [proc[p] EXCEPT !.pc = "opt_commit"]]
    /\ UNCHANGED <<plans, tasks, expectedTasks, userDocs, sessions, returned, clock>>

\* await batch.commit(): every update is applied, or, when one of them names
\* a task that does not exist, the batch fails and none is
OptimizeCommit(p) ==
    /\ proc[p].pc = "opt_commit"
    /\ LET planId == proc[p].planId
           named == NamedUpdates(proc[p].updates.items)
       IN  IF \E i \in 1 .. Len(named) : named[i].taskId \notin TaskIds(planId)
           THEN /\ proc' = [proc EXCEPT ![p] = FinishWith(p, "NotFound", <<>>)]
                /\ UNCHANGED tasks
           ELSE /\ tasks' = [tasks EXCEPT ![planId] = ApplyUpdates(@, named, clock)]
                /\ proc' = [proc EXCEPT ![p].pc = "opt_mark"]
    /\ UNCHANGED <<plans, expectedTasks, userDocs, sessions, returned, clock>>

\* await updateDoc(planRef, { optimizedAt: serverTimestamp() }).catch(() => {})
OptimizeMarkPlan(p) ==
    /\ proc[p].pc = "opt_mark"
    /\ plans' = [plans EXCEPT ![proc[p].planId].optimizedAt = clock]
    /\ proc' = [proc EXCEPT ![p] = FinishWith(p, "ok", <<>>)]
    /\ UNCHANGED <<tasks, expectedTasks, userDocs, sessions, returned, clock>>

\* -------------------------------------------------------- specifications

\* the round trips of the session calls, but for the clearing of a stale
\* pointer (pc "ss_clear"), which only a specification that can make the
\* pointer stale lists
SessionSteps(p) ==
    \/ StartSessionReadPointer(p)
    \/ StartSessionGetDoc(p)
    \/ StartSessionAddDoc(p)
    \/ StartSessionSetPointer(p)
    \/ EndSessionUpdate(p)
    \/ EndSessionClearPointer(p)

SessionCalls(p, callers, maxSessions) ==
    \E uid \in callers :
        \/ \E a \in StartArgs : StartSessionCall(p, uid, a, maxSessions)
        \/ \E sessionId \in 1 .. maxSessions, a \in EndArgs :
              EndSessionCall(p, uid, sessionId, a)
        \/ \E sessionId \in 1 .. maxSessions : CancelSessionCall(p, uid, sessionId)

\* one tab (process 1) of one user: a call is made only when the previous call
\* has ended (Resting), so session calls never overlap; the store never fails.
\* Here the pointer never names a terminal session (every endSession that
\* ends a session also clears the pointer), so no call reaches "ss_clear".
NextSessionSeq ==
    \/ Tick
    \/ SessionCalls(1, {"u1"}, MaxSessions)
    \/ SessionSteps(1)

SpecSessionSeq == Init /\ [][NextSessionSeq]_vars

\* the calls of a tab that starts pomodoros and completes them
RacingCalls(p, uid) ==
    \/ \E a \in StartArgs : StartSessionCall(p, uid, a, MaxRacingSessions)
    \/ \E sessionId \in 1 .. MaxRacingSessions :
          EndSessionCall(p, uid, sessionId, EndArg(25, "completed", NULLNUM))

\* two tabs of one user whose session calls interleave at every round trip
NextSession ==
    \/ Tick
    \/ \E p \in Procs :
          RacingCalls(p, "u1") \/ SessionSteps(p) \/ StartSessionClearStale(p)

SpecSession == Init /\ [][NextSession]_vars

\* an empty store but for the session pointer of u1, which is unset or names a
\* session that is not stored any more (the case startSession tests with
\* ssnap.exists()); the id is one no session of the run is given
InitEndFault ==
    /\ plans = <<>>
    /\ tasks = <<>>
    /\ expectedTasks = <<>>
    /\ \E sid \in {ABSENT, MaxFaultSessions + 1} :
          userDocs = [u \in Users |->
              IF u = "u1" THEN [NoUserDoc EXCEPT !.activeSessionId = sid]
              ELSE NoUserDoc]
    /\ sessions = [u \in Users |-> <<>>]
    /\ returned = [u \in Users |-> {}]
    /\ clock = 1
    /\ proc = [p \in Procs |-> IdleProc]

\* one tab of one user, and the two store writes of endSession may fail: a
\* failed pointer-clearing write leaves the pointer naming a terminal
\* session, which the next startSession finds stale. The calls are also made
\* with burnout scores below and above the scale.
NextEndFault ==
    \/ \E a \in StartArgs \cup {StartArg("pomodoro", NULLNUM, 30, 0 - 20)} :
          StartSessionCall(1, "u1", a, MaxFaultSessions)
    \/ \E sessionId \in 1 .. MaxFaultSessions,
          a \in {EndArg(25, "completed", NULLNUM), EndArg(25, "completed", 150),
                EndArg(0 - 5, "cancelled", 0 - 20)} :
          EndSessionCall(1, "u1", sessionId, a)
    \/ \E sessionId \in 1 .. MaxFaultSessions : CancelSessionCall(1, "u1", sessionId)
    \/ SessionSteps(1)
    \/ StartSessionClearStale(1)
    \/ EndSessionUpdateFails(1)
    \/ EndSessionClearPointerFails(1)

SpecEndFault == InitEndFault /\ [][NextEndFault]_vars


PlanSteps(p) ==
    \/ CreatePlanQuery(p)
    \/ CreatePlanAddDoc(p)
    \/ CreatePlanCommit(p)
    \/ CreatePlanSetPointer(p)
    \/ SetPlanActiveGet(p)
    \/ SetPlanActiveQuery(p)
    \/ SetPlanActiveCommit(p)
    \/ SetPlanActiveSetPointer(p)

PlanCalls(p, callers) ==
    \E uid \in callers :
        \/ \E title \in TitleArgs, taskArg \in TaskArgs :
              CreatePlanCall(p, uid, title, taskArg, NULLNUM)
        \/ \E planId \in 1 .. MaxPlans : SetPlanActiveCall(p, uid, planId)

\* one tab (process 1): a call is made only when the tab's previous call has
\* ended (Resting), so calls never overlap; the store never fails
NextPlanSeq ==
    \/ Tick
    \/ PlanCalls(1, Users)
    \/ PlanSteps(1)

SpecPlanSeq == Init /\ [][NextPlanSeq]_vars

\* two tabs whose calls interleave at every store round trip
NextPlan ==
    \/ Tick
    \/ \E p \in Procs : PlanCalls(p, {"u1"}) \/ PlanSteps(p)

SpecPlan == Init /\ [][NextPlan]_vars

\* one tab, and store writes of createPlan may fail
NextPlanFault ==
    \/ Tick
    \/ PlanCalls(1, Users)
    \/ PlanSteps(1)
    \/ CreatePlanWriteFails(1)

SpecPlanFault == Init /\ [][NextPlanFault]_vars

\* the calls about one plan and its tasks
TaskSteps(p) ==
    \/ GetPlanTasksGet(p)
    \/ GetPlanTasksQuery(p)
    \/ SetTaskDoneGet(p)
    \/ SetTaskDoneUpdate(p)
    \/ OptimizeGet(p)
    \/ OptimizeCommit(p)
    \/ OptimizeMarkPlan(p)

\* a user creates a plan of two tasks, while the store holds fewer than
\* MaxTaskPlans plans
CreateTaskPlan(p, uid) ==
    /\ Len(plans) < MaxTaskPlans
    /\ CreatePlanCall(p, uid, <<"A">>, TwoTasks, NULLNUM)

TaskCalls(p, callers) ==
    \E uid \in callers :
        \/ CreateTaskPlan(p, uid)
        \/ \E planId \in 1 .. MaxTaskPlans :
              \/ SetPlanActiveCall(p, uid, planId)
              \/ GetPlanTasksCall(p, uid, planId)
              \/ \E taskId \in {1, 9}, done \in BOOLEAN :
                    SetTaskDoneCall(p, uid, planId, taskId, done)
              \/ \E updates \in UpdatesArgs : OptimizeCall(p, uid, planId, updates)

\* one tab used by two users in turn: plans are created, read, activated and
\* their tasks updated, one call after the other; the store never fails
NextTaskSeq ==
    \/ TaskCalls(1, Users)
    \/ CreatePlanQuery(1)
    \/ CreatePlanAddDoc(1)
    \/ CreatePlanCommit(1)
    \/ CreatePlanSetPointer(1)
    \/ SetPlanActiveGet(1)
    \/ SetPlanActiveQuery(1)
    \/ SetPlanActiveCommit(1)
    \/ SetPlanActiveSetPointer(1)
    \/ TaskSteps(1)

SpecTaskSeq == Init /\ [][NextTaskSeq]_vars

\* a plan document as an earlier release of the app, or a call sequence cut
\* short by a failed write, left it: owned, active or not, with no input
StoredPlan(uid, active, createdAt) ==
    [NewPlanDoc(uid, <<"A">>, NULLNUM, createdAt) EXCEPT !.active = active]

\* The store getActivePlan is written for ("Fallback: old query (in case
\* pointer missing)", "Self-heal: pick newest plan and set pointer"): up to
\* MaxHealPlans plans without tasks, of any owner, any of them active,
\* plan i created at time i, and every user's plan pointer either unset or
\* naming one of the user's plans.
InitHeal ==
    /\ \E n \in 0 .. MaxHealPlans :
         \E owner \in [1 .. n -> Users], active \in [1 .. n -> BOOLEAN] :
           \E ptr \in [Users -> {ABSENT} \cup (1 .. n)] :
              /\ \A u \in Users : ptr[u] # ABSENT => owner[ptr[u]] = u
              /\ plans = [i \in 1 .. n |-> StoredPlan(owner[i], active[i], i)]
              /\ tasks = [i \in 1 .. n |-> <<>>]
              /\ expectedTasks = [i \in 1 .. n |-> 0]
              /\ userDocs = [u \in Users |->
                                [NoUserDoc EXCEPT !.activePlanId = ptr[u]]]
    /\ sessions = [u \in Users |-> <<>>]
    /\ returned = [u \in Users |-> {}]
    /\ clock = 1
    /\ proc = [p \in Procs |-> IdleProc]

\* the round trips of getActivePlan and of the getPlans query after it
HealSteps(p) ==
    \/ GapReadPointer(p)
    \/ GapGetPlan(p)
    \/ HealGet(p)
    \/ HealQuery(p)
    \/ HealCommit(p)
    \/ HealSetPointer(p)
    \/ GapQueryActive(p)
    \/ GapFixPointer(p)
    \/ GapQueryAny(p)
    \/ GapSetPointerAgain(p)
    \/ GetPlansQuery(p)

\* a user calls createPlan with a title and with no tasks or with tasks
\* that are not a list, while the store holds fewer than MaxHealPlans plans
CreateHealPlan(p, uid, title, taskArg) ==
    /\ Len(plans) < MaxHealPlans
    /\ CreatePlanCall(p, uid, title, taskArg, NULLNUM)

HealCalls(p, callers) ==
    \E uid \in callers :
        \/ \E title \in TitleArgs, taskArg \in {NoTaskArg, [isArray |-> TRUE, items |-> <<>>]} :
              CreateHealPlan(p, uid, title, taskArg)
        \/ GetActivePlanCall(p, uid)
        \/ GetPlansCall(p, uid)
        \/ \E planId \in 1 .. MaxHealPlans : SetPlanActiveCall(p, uid, planId)

\* one tab used by two users in turn over such a store: createPlan,
\* setPlanActive, getActivePlan and getPlans, one call after the other
NextHealSeq ==
    \/ HealCalls(1, Users)
    \/ PlanSteps(1)
    \/ HealSteps(1)

SpecHealSeq == InitHeal /\ [][NextHealSeq]_vars

\* the same calls over a store that starts empty. The pointer and the active
\* flags are then written by these calls only, and getActivePlan finds
\* nothing to repair: of its round trips only the reads are listed.
NextFreshSeq ==
    \/ HealCalls(1, Users)
    \/ PlanSteps(1)
    \/ GapReadPointer(1)
    \/ GapGetPlan(1)
    \/ GapQueryActive(1)
    \/ GapQueryAny(1)
    \/ GetPlansQuery(1)

SpecFreshSeq == Init /\ [][NextFreshSeq]_vars

\* such a store with at most MaxPointerPlans plans, all of them of u1
InitPointer ==
    /\ InitHeal
    /\ Len(plans) <= MaxPointerPlans
    /\ \A id \in PlanIds : plans[id].userId = "u1"

\* one tab of u1 over such a store: the plan calls and the session calls,
\* one call after the other, so that both halves of the pointer document
\* get written
NextPointer ==
    \/ HealCalls(1, {"u1"})
    \/ PlanSteps(1)
    \/ HealSteps(1)
    \/ SessionCalls(1, {"u1"}, MaxPointerSessions)
    \/ SessionSteps(1)

SpecPointer == InitPointer /\ [][NextPointer]_vars

\* A store with more plans than a page holds: u1 has none, two or
\* MaxPagedPlans plans, two created at each instant, of which the oldest, the
\* newest, both or neither is active, and a pointer that is unset or names
\* the oldest; the last plan of the store is an active plan of u2.
InitPaged ==
    /\ \E n \in {0, 2, MaxPagedPlans} :
         \E active \in SUBSET ({1, n} \cap (1 .. n)), ptr \in {ABSENT} \cup ({1} \cap (1 .. n)) :
            /\ plans = [i \in 1 .. n + 1 |->
                           IF i = n + 1 THEN StoredPlan("u2", TRUE, 1)
                           ELSE StoredPlan("u1", i \in active, (i + 1) \div 2)]
            /\ tasks = [i \in 1 .. n + 1 |-> <<>>]
            /\ expectedTasks = [i \in 1 .. n + 1 |-> 0]
            /\ userDocs = [u \in Users |->
                              IF u = "u1" THEN [NoUserDoc EXCEPT !.activePlanId = ptr]
                              ELSE NoUserDoc]
    /\ sessions = [u \in Users |-> <<>>]
    /\ returned = [u \in Users |-> {}]
    /\ clock = 1
    /\ proc = [p \in Procs |-> IdleProc]

\* one tab of u1 reads its plans over such a store, with the default
\* limitCount and with a limit of 1
NextPaged ==
    \/ GetPlansCall(1, "u1")
    \/ GetPlansLimitCall(1, "u1", 1)
    \/ HealSteps(1)

SpecPaged == InitPaged /\ [][NextPaged]_vars

\* a session as startSession and endSession leave it in the log: started at
\* startedAt with 100 planned and 120 scaled minutes and a burnout score of
\* 40, then left running or ended with a status and a duration
LoggedSession(mode, subject, startedAt, status, durationMinutes) ==
    LET doc == NewSessionDoc([StartArg(mode, 100, 120, 40) EXCEPT !.subject = subject],
                             startedAt)
    IN  IF status = "running" THEN doc
        ELSE EndUpdate(doc, durationMinutes, status, NULLNUM, startedAt)

\* a completed pomodoro of 130 minutes at midnight of each of the last days,
\* one of 80 and one of 35 minutes now, and sessions no aggregate counts:
\* cancelled, running, and completed breaks
SessionSamples(now) ==
    {LoggedSession("pomodoro", "math", MidnightBefore(now, back), "completed", 130) :
        back \in 0 .. MaxDaysBack}
    \cup {LoggedSession("pomodoro", "null", now, "completed", 80),
          LoggedSession("pomodoro", "physics", now, "completed", 35),
          LoggedSession("pomodoro", "math", now, "cancelled", 10),
          LoggedSession("pomodoro", "math", now, "running", 0),
          LoggedSession("short", "math", MidnightBefore(now, 1), "completed", 5),
          LoggedSession("long", "null", now, "completed", 15)}

\* the sequences of at most n elements of a set
SeqsUpTo(S, n) == UNION {[1 .. k -> S] : k \in 0 .. n}

\* the store the insights are computed from: no plans, and the session log
\* of u1 any sequence of at most MaxLoggedSessions of the samples; today is
\* the day MaxDaysBack days after day 0
InitInsights ==
    /\ plans = <<>>
    /\ tasks = <<>>
    /\ expectedTasks = <<>>
    /\ userDocs = [u \in Users |-> NoUserDoc]
    /\ clock = MaxDaysBack * TicksPerDay + 1
    /\ \E log \in SeqsUpTo(SessionSamples(MaxDaysBack * TicksPerDay + 1),
                            MaxLoggedSessions) :
          sessions = [u \in Users |-> IF u = "u1" THEN log ELSE <<>>]
    /\ returned = [u \in Users |-> {}]
    /\ proc = [p \in Procs |-> IdleProc]

\* the insight functions, called one after the other by u1
NextInsights ==
    \/ GetTodaySessionStats(1, "u1")
    \/ \E lookbackDays \in {1, 45} : GetStreak(1, "u1", lookbackDays)
    \/ GetWeeklyStats(1, "u1")
    \/ \E days \in {2, 7} : GroupFocus(1, "u1", days)
    \/ \E days \in {2, 7} : GetAdvancedInsights(1, "u1", days)

SpecInsights == InitInsights /\ [][NextInsights]_vars

\* n tasks as createPlan inserts them, the first nDone of them set done
StoredTasks(n, nDone) ==
    [i \in 1 .. n |->
        [BuildTasks(<<TaskInput(<<"a">>, 25, i)>>, 0)[1] EXCEPT
            !.done = i <= nDone,
            !.completedAt = IF i <= nDone THEN 1 ELSE NULL]]

PlanSample(active, pointed, energyLevel, n, nDone) ==
    [active |-> active, pointed |-> pointed, energyLevel |-> energyLevel,
     n |-> n, nDone |-> nDone]

\* the plan of u1: active and pointed to, with energy 1 and one of five tasks
\* done; active but not pointed to, with energy 3 and one of two tasks done;
\* active and pointed to, with energy 5 and both tasks done; and neither
\* active nor pointed to, without input and without tasks
PlanSamples ==
    { PlanSample(TRUE, TRUE, 1, 5, 1), PlanSample(TRUE, FALSE, 3, 2, 1),
      PlanSample(TRUE, TRUE, 5, 2, 2), PlanSample(FALSE, FALSE, NULLNUM, 0, 0) }

\* the sessions of the scorer's stores: completed pomodoros today and
\* yesterday and a cancelled one
ScoredSamples(now) ==
    { LoggedSession("pomodoro", "math", MidnightBefore(now, 0), "completed", 130),
      LoggedSession("pomodoro", "null", now, "completed", 70),
      LoggedSession("pomodoro", "math", MidnightBefore(now, 1), "completed", 130),
      LoggedSession("pomodoro", "math", now, "cancelled", 10) }

\* the store the burnout score is computed from: u1 has no plan or one of
\* the sample plans, and a session log of at most MaxScoredSessions sessions
InitScore ==
    /\ \/ /\ plans = <<>>
          /\ tasks = <<>>
          /\ expectedTasks = <<>>
          /\ userDocs = [u \in Users |-> NoUserDoc]
       \/ \E sample \in PlanSamples :
             /\ plans = <<[StoredPlan("u1", sample.active, 1) EXCEPT
                               !.input = sample.energyLevel]>>
             /\ tasks = <<StoredTasks(sample.n, sample.nDone)>>
             /\ expectedTasks = <<sample.n>>
             /\ userDocs = [u \in Users |->
                   IF u = "u1" /\ sample.pointed
                   THEN [NoUserDoc EXCEPT !.activePlanId = 1] ELSE NoUserDoc]
    /\ clock = MaxDaysBack * TicksPerDay + 1
    /\ \E log \in SeqsUpTo(ScoredSamples(MaxDaysBack * TicksPerDay + 1),
                            MaxScoredSessions) :
          sessions = [u \in Users |-> IF u = "u1" THEN log ELSE <<>>]
    /\ returned = [u \in Users |-> {}]
    /\ proc = [p \in Procs |-> IdleProc]

\* u1 calls the burnout scorer and the insight functions, one call after
\* the other
NextScore ==
    \/ GetBurnoutScoreCall(1, "u1")
    \/ BurnoutReadToday(1)
    \/ BurnoutReadStreak(1)
    \/ GapReadPointer(1)
    \/ GapGetPlan(1)
    \/ HealGet(1)
    \/ HealQuery(1)
    \/ HealCommit(1)
    \/ HealSetPointer(1)
    \/ GapQueryActive(1)
    \/ GapFixPointer(1)
    \/ GapQueryAny(1)
    \/ GapSetPointerAgain(1)
    \/ GetPlanTasksGet(1)
    \/ GetPlanTasksQuery(1)
    \/ GetTodaySessionStats(1, "u1")
    \/ GetStreak(1, "u1", 45)
    \/ GetWeeklyStats(1, "u1")
    \/ GetAdvancedInsights(1, "u1", 7)

SpecScore == InitScore /\ [][NextScore]_vars

\* ------------------------------------------------------------------ claims

Done(p, op) == proc[p].pc = "done" /\ proc[p].op = op

\* C1: whenever no call is in flight, after any sequence of non-overlapping
\* createPlan and setPlanActive calls (accepted or rejected), every user has
\* at most one plan with active = true.
C1_AtMostOneActiveAtRest ==
    AllResting => \A u \in Users : Cardinality(ActivePlansOf(u)) <= 1

\* a setPlanActive call of a user with several plans has completed
C1_Witness ==
    /\ Done(1, "setPlanActive") /\ proc[1].outcome = "ok"
    /\ Cardinality(PlansOf(proc[1].uid)) >= 2
    /\ Cardinality(ActivePlansOf(proc[1].uid)) = 1

\* C2: in every state, also between the store writes of createPlan, a plan
\* with active = true has all its task documents (one per input task with a
\* non-empty title).
C2_ActivePlanHasItsTasks ==
    \A id \in PlanIds : plans[id].active => Len(tasks[id]) = expectedTasks[id]

\* C3: when createPlan has failed on one of its store writes, no plan with
\* active = true lacks task documents.
C3_FailedCreateLeavesNoHalfPlan ==
    \A p \in Procs :
        Done(p, "createPlan") /\ proc[p].outcome = "StorageError"
            => \A id \in PlanIds :
                   plans[id].active => Len(tasks[id]) = expectedTasks[id]

\* C4: when two tabs of one user have run createPlan / setPlanActive calls
\* with interleaved store round trips, the user has at most one plan with
\* active = true (stated for the states in which both calls have completed).
C4_AtMostOneActiveAfterRace ==
    (\A p \in Procs : proc[p].pc = "done" /\ proc[p].outcome = "ok")
        => \A u \in Users : Cardinality(ActivePlansOf(u)) <= 1

\* C5: in every state reached by non-overlapping startSession, endSession and
\* cancelSession calls, at most one session of a user has status running.
C5_AtMostOneRunning ==
    \A u \in Users : Cardinality(RunningSessions(u)) <= 1

\* two startSession calls of one user that overlapped: each was made before
\* the other inserted its session
Raced(p, q) ==
    /\ p # q
    /\ Done(p, "startSession") /\ Done(q, "startSession")
    /\ proc[p].uid = proc[q].uid
    /\ proc[p].nSessBegin = proc[q].nSessBegin
    /\ ~proc[p].reused /\ ~proc[q].reused

\* C6: two overlapping startSession calls of one user that both passed the
\* pointer check have returned two different ids with reused = false, and
\* both sessions are running.
C6_RacingStartsBothInsert ==
    \A p, q \in Procs :
        Raced(p, q) =>
            /\ proc[p].rid # proc[q].rid
            /\ {proc[p].rid, proc[q].rid} \subseteq RunningSessions(proc[p].uid)

\* the race happened while no other session was running
C6_Witness ==
    /\ Raced(1, 2)
    /\ RunningSessions(proc[1].uid) = {proc[1].rid, proc[2].rid}
    /\ Cardinality(RunningSessions(proc[1].uid)) = 2

\* C7: when a startSession call completes and a session s that an earlier
\* startSession call returned is still running, the call has returned
\* {id: s, reused: true} and inserted no session document.
C7_SecondStartReuses ==
    \A p \in Procs :
        Done(p, "startSession") =>
            \A s \in returned[proc[p].uid] :
                s <= proc[p].nSessBegin /\ s \in RunningSessions(proc[p].uid)
                    => /\ proc[p].rid = s
                       /\ proc[p].reused
                       /\ Len(sessions[proc[p].uid]) = proc[p].nSessBegin

\* C8: when endSession(s, status) on a session s that startSession returned
\* has completed, s has that terminal status, endedAt is set and the user's
\* activeSessionId is null.
C8_EndedAndPointerCleared ==
    \A p \in Procs :
        /\ Done(p, "endSession")
        /\ proc[p].sessId \in returned[proc[p].uid]
        => LET doc == sessions[proc[p].uid][proc[p].sessId]
           IN  /\ proc[p].outcome = "ok"
               /\ doc.status = proc[p].status
               /\ doc.status \in {"completed", "cancelled"}
               /\ doc.endedAt # NULL
               /\ userDocs[proc[p].uid].activeSessionId = NULL

\* endSession on the running session that the pointer named has completed
C8_Witness ==
    /\ Done(1, "endSession") /\ proc[1].outcome = "ok"
    /\ proc[1].prior = "running"
    /\ proc[1].sessId \in returned[proc[1].uid]
    /\ sessions[proc[1].uid][proc[1].sessId].status = "cancelled"

\* C9: once a session is completed or cancelled, no step changes its status,
\* endedAt, durationMinutes or completed field.
C9_TerminalIsFinal ==
    [][\A u \in Users : \A s \in SessionIds(u) :
          sessions[u][s].status # "running" =>
              /\ sessions'[u][s].status = sessions[u][s].status
              /\ sessions'[u][s].endedAt = sessions[u][s].endedAt
              /\ sessions'[u][s].durationMinutes = sessions[u][s].durationMinutes
              /\ sessions'[u][s].completed = sessions[u][s].completed]_vars

\* the update step of an endSession call on a session that was terminal when
\* the call was made
OverwritesTerminal(p) ==
    /\ proc[p].pc = "es_update" /\ proc'[p].pc # "es_update"
    /\ proc[p].prior \in {"completed", "cancelled"}

\* C10: endSession on an already completed or cancelled session is not
\* rejected: its update writes endedAt (the time of the write),
\* durationMinutes (floored at 0), status and completed of the later call
\* over the document, and the call completes without error.
C10_LastWriteWins ==
    /\ [][\A p \in Procs : OverwritesTerminal(p) =>
            LET doc == sessions'[proc[p].uid][proc[p].sessId]
            IN  /\ proc'[p].pc = "es_clear"
                /\ doc.endedAt = clock
                /\ doc.durationMinutes = Max(0, proc[p].dur)
                /\ doc.status = proc[p].status
                /\ doc.completed = IF proc[p].status = "completed"
                                    THEN "true" ELSE "false"]_vars
    /\ [](\A p \in Procs :
            Done(p, "endSession") /\ proc[p].prior \in {"completed", "cancelled"}
                => proc[p].outcome = "ok")

\* a completed session has been ended again, later, as cancelled
C10_Witness ==
    /\ Done(1, "endSession") /\ proc[1].outcome = "ok"
    /\ proc[1].prior = "completed"
    /\ LET doc == sessions[proc[1].uid][proc[1].sessId]
       IN  /\ doc.status = "cancelled" /\ doc.completed = "false"
           /\ doc.durationMinutes = 0
           /\ doc.endedAt > doc.startedAt


\* the effect C11 names: the session is cancelled with no minutes, not
\* completed, has an end time, and the session pointer is cleared
CancelledEffect(uid, sid) ==
    /\ sid \in SessionIds(uid)
    /\ sessions[uid][sid].status = "cancelled"
    /\ sessions[uid][sid].durationMinutes = 0
    /\ sessions[uid][sid].completed = "false"
    /\ sessions[uid][sid].endedAt # NULL
    /\ ActiveSessionPointer(uid) = NULL

\* C11: cancelSession(id) has exactly the effect of endSession(id,
\* { durationMinutes: 0, status: "cancelled" }): a call of either kind fails
\* exactly when the session does not exist, and otherwise leaves the session
\* cancelled, with durationMinutes 0, completed false, endedAt set, and the
\* session pointer cleared.
C11_CancelIsEndWithZeroCancelled ==
    \A p \in Procs :
        (\/ Done(p, "cancelSession")
         \/ (Done(p, "endSession") /\ proc[p].dur = 0 /\ proc[p].status = "cancelled"))
        => /\ (proc[p].outcome = "NotFound") = (proc[p].prior = "none")
           /\ (proc[p].outcome = "ok") = (proc[p].prior # "none")
           /\ proc[p].outcome = "ok" => CancelledEffect(proc[p].uid, proc[p].sessId)

\* a running session of 25 planned minutes has been cancelled by cancelSession
C11_Witness ==
    /\ Done(1, "cancelSession") /\ proc[1].outcome = "ok"
    /\ proc[1].prior = "running"
    /\ CancelledEffect("u1", proc[1].sessId)

\* the plan a call is about exists and belongs to another user
OnForeignPlan(p) ==
    /\ proc[p].planId \in PlanIds
    /\ plans[proc[p].planId].userId # proc[p].uid

\* C12: getPlanTasks(planId) by a user who does not own the plan fails with
\* Forbidden and returns no task, and the call never reaches its task query:
\* no task is read before (or after) the ownership check.
C12_ForeignTasksAreNotRead ==
    \A p \in Procs :
        proc[p].op = "getPlanTasks" /\ OnForeignPlan(p)
        => /\ proc[p].pc # "gpt_tasks"
           /\ ~proc[p].tasksRead
           /\ proc[p].pc = "done" => proc[p].outcome = "Forbidden" /\ proc[p].out = <<>>

\* getPlanTasks was refused on another user's plan that has tasks
C12_Witness ==
    /\ Done(1, "getPlanTasks") /\ OnForeignPlan(1)
    /\ proc[1].outcome = "Forbidden"
    /\ tasks[proc[1].planId] # <<>>

\* C13: while a setTaskDone, setPlanActive or optimizeTasksInPlan call on a
\* plan owned by another user is in flight, no plan, task, session or pointer
\* of any user changes, and the call ends with Forbidden.
C13_ForeignWritesForbidden ==
    [][\A p \in Procs :
          /\ proc[p].op \in {"setTaskDone", "setPlanActive", "optimizeTasksInPlan"}
          /\ ~Resting(p)
          /\ OnForeignPlan(p)
          => /\ UNCHANGED <<plans, tasks, userDocs, sessions>>
             /\ proc'[p] # proc[p]
                => proc'[p].pc = "done" /\ proc'[p].outcome = "Forbidden"]_vars

\* optimizeTasksInPlan was refused on another user's plan, whose task 1 the
\* update named, while both users own a plan
C13_Witness ==
    /\ Done(1, "optimizeTasksInPlan") /\ OnForeignPlan(1)
    /\ proc[1].outcome = "Forbidden"
    /\ 1 \in TaskIds(proc[1].planId)
    /\ \A u \in Users : PlansOf(u) # {}

\* a title that is empty or made of spaces only
Blank(title) == \A i \in 1 .. Len(title) : title[i] = " "

\* C14: a createPlan call whose title is empty or whitespace-only, or whose
\* tasks are not a list, ends at once with a validation error, and no plan,
\* task, session or pointer changes.
C14_InvalidCreateChangesNothing ==
    [][\A p \in Procs, uid \in Users, title \in TitleArgs, taskArg \in TaskArgs :
          /\ Blank(title) \/ ~taskArg.isArray
          /\ CreatePlanCall(p, uid, title, taskArg, NULLNUM)
          => /\ proc'[p].pc = "done" /\ proc'[p].outcome = "ValidationError"
             /\ UNCHANGED <<plans, tasks, expectedTasks, userDocs, sessions>>]_vars

\* a createPlan call was rejected while the store holds an active plan and
\* the caller's pointer names it
C14_Witness ==
    /\ Done(1, "createPlan") /\ proc[1].outcome = "ValidationError"
    /\ ActivePlansOf(proc[1].uid) # {}
    /\ userDocs[proc[1].uid].activePlanId \in ActivePlansOf(proc[1].uid)

\* C15: a completed getActivePlan call returns { plan: null } only to a
\* caller who owns no plan; to a caller who owns at least one plan, whatever
\* the pointer and the active flags were, it returns one of the caller's
\* plans.
C15_NullOnlyWithoutPlans ==
    \A p \in Procs :
        Done(p, "getActivePlan")
        => /\ proc[p].outcome = "ok"
           /\ IF PlansOf(proc[p].uid) = {} THEN proc[p].rid = NULL
              ELSE proc[p].rid \in PlansOf(proc[p].uid)

\* getActivePlan found no usable pointer and no active plan, and by its
\* self-heal returned a plan of the caller, who owns several
C15_Witness ==
    /\ Done(1, "getActivePlan") /\ proc[1].tier = "heal"
    /\ proc[1].rid \in PlansOf(proc[1].uid)
    /\ Cardinality(PlansOf(proc[1].uid)) > 1

\* C16: in every reachable state, whatever createPlan, setPlanActive,
\* getActivePlan and getPlans calls the users have made, a user's plan
\* pointer is unset or names an existing plan owned by that user.
C16_PointerNamesOwnPlan ==
    \A u \in Users :
        \/ userDocs[u].activePlanId = ABSENT
        \/ userDocs[u].activePlanId \in PlansOf(u)

\* both users own plans and u2's pointer names its own plan after u2's
\* setPlanActive was refused on u1's plan
C16_Witness ==
    /\ Done(1, "setPlanActive") /\ proc[1].uid = "u2"
    /\ proc[1].outcome = "Forbidden"
    /\ userDocs["u2"].activePlanId \in PlansOf("u2")
    /\ userDocs["u1"].activePlanId \in PlansOf("u1")

\* C17: no step of a getTodaySessionStats, getStreak, getWeeklyStats,
\* getAdvancedInsights or getBurnoutScore call changes a plan (its active
\* flag included), a task, a session or a pointer, in whatever state the
\* call starts.
C17_InsightsAndScorerNeverMutate ==
    [][\A p \in Procs :
          /\ proc'[p] # proc[p]
          /\ proc'[p].op \in {"getTodaySessionStats", "getStreak", "getWeeklyStats",
                               "getAdvancedInsights", "getBurnoutScore"}
          => UNCHANGED <<plans, tasks, userDocs, sessions>>]_vars

\* the rule table of the burnout score, for a numeric energy and a
\* completion of done out of total tasks (1 when there are none)
RuleTableSum(energy, done, total, streak, minutes) ==
    LET Below(tenths) == total > 0 /\ 10 * done < tenths * total
    IN  (CASE energy <= 2 -> 25 [] energy = 3 -> 10 [] OTHER -> 0)
      + (CASE Below(4) -> 25 [] Below(7) -> 10 [] OTHER -> 0)
      + (CASE streak = 0 -> 20 [] OTHER -> 0)
      + (CASE minutes > 180 -> 20 [] minutes > 120 -> 10 [] OTHER -> 0)

RuleTableStatus(score) ==
    CASE score > 60 -> "Burnout Risk"
      [] score > 30 /\ score <= 60 -> "Fatigued"
      [] OTHER -> "Healthy"

\* C18: the score getBurnoutScore returns is the sum of the four terms of
\* the rule table for the energy, completion, streak and minutes it returns,
\* clamped to 0..100, the energy being 3 when the plan has no input (or
\* there is no plan); the status is "Burnout Risk" iff score > 60, "Fatigued"
\* iff 30 < score <= 60, else "Healthy". Energy 1, completion 1/5, streak 0 and
\* 200 minutes score 90, "Burnout Risk"; energy 5, completion 1, streak 5 and
\* 30 minutes score 0, "Healthy".
C18_ScoreIsRuleTableSum ==
    /\ \A p \in Procs :
          Done(p, "getBurnoutScore") /\ proc[p].outcome = "ok"
          => LET o == proc[p].out
             IN  /\ o.score = Max(0, Min(100, RuleTableSum(o.energy, o.done, o.total,
                                                           o.streak, o.totalMinutes)))
                 /\ o.status = RuleTableStatus(o.score)
                 /\ (proc[p].rid = NULL \/ plans[proc[p].rid].input = NULLNUM)
                    => o.energy = 3
                 /\ proc[p].rid # NULL /\ plans[proc[p].rid].input # NULLNUM
                    => o.energy = plans[proc[p].rid].input
    /\ BurnoutScoreOf(1, 1, 5, 0, 200).score = 90
    /\ BurnoutScoreOf(1, 1, 5, 0, 200).status = "Burnout Risk"
    /\ BurnoutScoreOf(5, 2, 2, 5, 30).score = 0
    /\ BurnoutScoreOf(5, 2, 2, 5, 30).status = "Healthy"

\* the scorer returned 70, "Burnout Risk", for energy 1, one task of five
\* done and no session at all
C18_Witness ==
    /\ Done(1, "getBurnoutScore") /\ proc[1].outcome = "ok"
    /\ proc[1].out.energy = 1 /\ proc[1].out.done = 1 /\ proc[1].out.total = 5
    /\ proc[1].out.streak = 0 /\ proc[1].out.totalMinutes = 0
    /\ proc[1].out.score = 70 /\ proc[1].out.status = "Burnout Risk"

\* a session every aggregate counts: completed, and a pomodoro
FocusSession(s) == s.status = "completed" /\ s.mode = "pomodoro"

\* the user has a focus session that started on the day, the day being one
\* of the lookbackDays days before today or today
HasFocusOn(uid, day, lookbackDays) ==
    /\ day >= DayOf(clock) - lookbackDays
    /\ \E i \in SessionIds(uid) :
          FocusSession(sessions[uid][i]) /\ DayOf(sessions[uid][i].startedAt) = day

\* C19: getStreak returns the number k such that each of the days today,
\* today-1, ..., today-(k-1) has a completed pomodoro session started within
\* the lookback window and the day today-k has none; so it returns 0 when
\* today has none, whatever earlier days have.
C19_StreakCountsConsecutiveDays ==
    \A p \in Procs :
        Done(p, "getStreak")
        => LET k == proc[p].out.streak
               today == DayOf(clock)
           IN  /\ k \in Nat
               /\ \A i \in 0 .. k - 1 : HasFocusOn(proc[p].uid, today - i, proc[p].days)
               /\ ~HasFocusOn(proc[p].uid, today - k, proc[p].days)

\* getStreak returned 3 for focus sessions on today, today-1 and today-2 and
\* none on today-3
C19_Witness ==
    /\ Done(1, "getStreak") /\ proc[1].days = 45
    /\ proc[1].out.streak = 3
    /\ \A i \in 0 .. 2 : HasFocusOn("u1", DayOf(clock) - i, 45)
    /\ ~HasFocusOn("u1", DayOf(clock) - 3, 45)

\* the session log of a user without the sessions that are running or
\* cancelled or of mode short or long
FocusOnly(uid) == SelectSeq(sessions[uid], FocusSession)

\* C20: what getTodaySessionStats, getStreak, getWeeklyStats,
\* groupFocusMinutesByDay and getAdvancedInsights return is what they return
\* for the log reduced to its completed pomodoro sessions: the running and
\* cancelled sessions and the sessions of mode short or long, whatever they
\* are, change no result.
C20_AggregatesCountFocusSessionsOnly ==
    \A p \in Procs :
        LET uid == proc[p].uid
            days == proc[p].days
            out == proc[p].out
        IN  /\ Done(p, "getTodaySessionStats")
               => out = TodaySessionStats(FocusOnly(uid), clock)
            /\ Done(p, "getStreak") => out = Streak(FocusOnly(uid), clock, days)
            /\ Done(p, "getWeeklyStats") => out = WeeklyStats(FocusOnly(uid), clock)
            /\ Done(p, "groupFocusMinutesByDay")
               => out = GroupFocusMinutesByDay(
                            SessionsSinceDays(FocusOnly(uid), clock, days), clock, days)
            /\ Done(p, "getAdvancedInsights")
               => out = AdvancedInsights(FocusOnly(uid), clock, days)

\* getAdvancedInsights returned the 130 minutes of the one completed pomodoro
\* of a log that also holds a cancelled pomodoro of 10 minutes and a
\* completed long break of 15 minutes, all started today
C20_Witness ==
    /\ Done(1, "getAdvancedInsights") /\ proc[1].out.totalActual = 130
    /\ Len(FocusOnly("u1")) = 1
    /\ \E i, j \in SessionIds("u1") :
          /\ sessions["u1"][i].status = "cancelled"
          /\ sessions["u1"][i].durationMinutes = 10
          /\ sessions["u1"][j].mode = "long"
          /\ sessions["u1"][j].status = "completed"
          /\ sessions["u1"][j].durationMinutes = 15

\* the integer nearest to num / den >= 0 (the greater one of two), in exact
\* arithmetic
Round(num, den) == (2 * num + den) \div (2 * den)

\* the sessions of a user that getAdvancedInsights({ days }) counts:
\* completed pomodoros started on one of the last days days
InWindow(uid, days) ==
    SelectSeq(sessions[uid],
              LAMBDA s : FocusSession(s) /\ DayOf(s.startedAt) > DayOf(clock) - days)

\* C21: getAdvancedInsights returns the totals of durationMinutes,
\* plannedMinutes and scaledMinutes over the qualifying sessions of the
\* window, productivity = round(100 * totalActual / totalPlanned), or 0 when
\* totalPlanned is 0, and focusEfficiency = round(100 * totalActual /
\* totalScaled), or 0 when totalScaled is 0; totals 80, 100, 120 give
\* productivity 80 and focusEfficiency 67.
C21_RatiosAreRoundedPercentages ==
    \A p \in Procs :
        Done(p, "getAdvancedInsights")
        => LET o == proc[p].out
               counted == InWindow(proc[p].uid, proc[p].days)
           IN  /\ o.totalActual = SumField(counted, "durationMinutes")
               /\ o.totalPlanned = SumField(counted, "plannedMinutes")
               /\ o.totalScaled = SumField(counted, "scaledMinutes")
               /\ o.productivity =
                      IF o.totalPlanned = 0 THEN 0
                      ELSE Round(100 * o.totalActual, o.totalPlanned)
               /\ o.focusEfficiency =
                      IF o.totalScaled = 0 THEN 0
                      ELSE Round(100 * o.totalActual, o.totalScaled)
               /\ (o.totalActual = 80 /\ o.totalPlanned = 100 /\ o.totalScaled = 120)
                      => o.productivity = 80 /\ o.focusEfficiency = 67

\* the updates of the call of p that name a task
NamedBy(p) == NamedUpdates(proc[p].updates.items)

\* C22: when the owner's optimizeTasksInPlan call commits a batch with an
\* update of an existing task and an update of a task id the plan does not
\* have, the commit succeeds, the existing task gets the fields of its
\* update, and no other task is created or changed.
C22_MissingTaskDoesNotFailBatch ==
    [][\A p \in Procs :
          LET planId == proc[p].planId
              named == NamedBy(p)
              Present(i) == named[i].taskId \in TaskIds(planId)
          IN  /\ proc[p].pc = "opt_commit" /\ proc'[p] # proc[p]
              /\ \E i \in 1 .. Len(named) : Present(i)
              /\ \E i \in 1 .. Len(named) : ~Present(i)
              => /\ proc'[p].pc = "opt_mark"
                 /\ DOMAIN tasks' = DOMAIN tasks
                 /\ \A id \in PlanIds \ {planId} : tasks'[id] = tasks[id]
                 /\ Len(tasks'[planId]) = Len(tasks[planId])
                 /\ \A t \in TaskIds(planId) :
                       IF \E i \in 1 .. Len(named) : named[i].taskId = t
                       THEN \E i \in 1 .. Len(named) :
                               /\ named[i].taskId = t
                               /\ tasks'[planId][t] =
                                      OptimizedTask(tasks[planId][t], named[i], clock)
                       ELSE tasks'[planId][t] = tasks[planId][t]]_vars

\* the session half of a pointer document
SessionPointerOf(doc) ==
    <<doc.activeSessionId, doc.activeSessionStartedAtMs, doc.activeSessionMode>>

\* C23: pointer writes merge: no step of a createPlan, setPlanActive,
\* getActivePlan or getPlans call changes activeSessionId,
\* activeSessionStartedAtMs or activeSessionMode of any user, and no step of a
\* startSession, endSession or cancelSession call changes activePlanId.
C23_PointerWritesMerge ==
    [][\A p \in Procs : proc'[p] # proc[p] =>
          /\ proc'[p].op \in {"createPlan", "setPlanActive", "getActivePlan", "getPlans"}
             => \A u \in Users :
                    SessionPointerOf(userDocs'[u]) = SessionPointerOf(userDocs[u])
          /\ proc'[p].op \in {"startSession", "endSession", "cancelSession"}
             => \A u \in Users :
                    userDocs'[u].activePlanId = userDocs[u].activePlanId]_vars

\* setPlanActive has moved the plan pointer of u1 to the second plan while
\* the session pointer names the running session startSession inserted
C23_Witness ==
    /\ Done(1, "setPlanActive") /\ proc[1].outcome = "ok"
    /\ userDocs["u1"].activePlanId = 2
    /\ userDocs["u1"].activeSessionId \in RunningSessions("u1")
    /\ userDocs["u1"].activeSessionMode = "pomodoro"

\* C24: when a getActivePlan call has completed and returned a plan P,
\* through any of its three tiers, P belongs to the caller, P has
\* active = true, and the caller's pointer activePlanId is P's id.
C24_ReturnedPlanIsOwnActiveAndPointed ==
    \A p \in Procs :
        Done(p, "getActivePlan") /\ proc[p].outcome = "ok" /\ proc[p].rid # NULL
        => /\ proc[p].tier \in {"pointer", "active", "heal"}
           /\ proc[p].rid \in PlansOf(proc[p].uid)
           /\ plans[proc[p].rid].active = TRUE
           /\ userDocs[proc[p].uid].activePlanId = proc[p].rid

\* the fallback tier returned one of the caller's two active plans and
\* pointed the pointer at it
C24_Witness ==
    /\ Done(1, "getActivePlan") /\ proc[1].tier = "active"
    /\ Cardinality(ActivePlansOf(proc[1].uid)) = 2
    /\ userDocs[proc[1].uid].activePlanId = proc[1].rid
    /\ proc[1].rid \in ActivePlansOf(proc[1].uid)

\* C25: when a setPlanActive(P) call that overlaps no other call completes,
\* it has succeeded for the owner of P, P is the only plan of that user with
\* active = true (so every plan that was active before and differs from P
\* has active = false), and the user's pointer activePlanId is P.
C25_TargetIsOnlyActiveAndPointed ==
    [][\A p \in Procs :
          proc[p].pc = "spa_ptr" /\ proc'[p].pc = "done"
          => LET uid == proc[p].uid
                 P == proc[p].planId
             IN  /\ proc'[p].outcome = "ok"
                 /\ plans[P].userId = uid
                 /\ {id \in 1 .. Len(plans') :
                         plans'[id].userId = uid /\ plans'[id].active} = {P}
                 /\ userDocs'[uid].activePlanId = P]_vars

\* setPlanActive has made plan 2 of a user the active one while plan 1 of
\* that user, the plan createPlan or the store had left active, is not
C25_Witness ==
    /\ Done(1, "setPlanActive") /\ proc[1].outcome = "ok"
    /\ {1, 2} \subseteq PlansOf(proc[1].uid)
    /\ ActivePlansOf(proc[1].uid) = {2}
    /\ userDocs[proc[1].uid].activePlanId = 2

\* the session pointer of a user names this session
PointsAt(docs, uid, sid) == docs[uid].activeSessionId = sid

\* C26: when startSession finds its pointer naming a session that is missing
\* or not running (seen at the return of a call whose read found that), it
\* does not reuse it: exactly one session was inserted since the call began,
\* it is running, its fresh id is returned with reused = false, and the
\* pointer's activeSessionId is that id.
C26_StalePointerStartsFreshSession ==
    [][\A p \in Procs :
          /\ proc[p].pc = "ss_get"
             /\ StatusOf(proc[p].uid, proc[p].sessId) # "running"
             => proc'[p].pc # "done"
          /\ /\ proc[p].op = "startSession" /\ proc[p].pc # "done"
             /\ proc'[p].pc = "done"
             /\ proc[p].prior \in {"missing", "completed", "cancelled"}
             =>
             LET uid == proc[p].uid
                 new == proc'[p].rid
             IN  /\ proc'[p].outcome = "ok" /\ ~proc'[p].reused
                 /\ Len(sessions'[uid]) = proc[p].nSessBegin + 1
                 /\ new = Len(sessions'[uid])
                 /\ SubSeq(sessions'[uid], 1, proc[p].nSessBegin)
                        = SubSeq(sessions[uid], 1, proc[p].nSessBegin)
                 /\ sessions'[uid][new].status = "running"
                 /\ PointsAt(userDocs', uid, new)]_vars

\* a startSession call that found its pointer naming a completed session has
\* returned a second session
C26_Witness ==
    /\ Done(1, "startSession") /\ proc[1].prior = "completed"
    /\ proc[1].rid = 2 /\ ~proc[1].reused
    /\ sessions[proc[1].uid][1].status = "completed"
    /\ PointsAt(userDocs, proc[1].uid, 2)

\* C27: a failure of the pointer-clearing write of endSession is swallowed:
\* once the session update has succeeded, the call returns without error
\* whether or not the pointer was cleared, and the session has the terminal
\* status the call gave; a failure of the session update ends the call with
\* that error, and neither the session nor the pointer is written.
C27_PointerClearFailureIsSwallowed ==
    [][\A p \in Procs :
          LET uid == proc[p].uid
              sid == proc[p].sessId
          IN  /\ proc[p].pc = "es_clear" /\ proc'[p].pc = "done"
                 => /\ proc'[p].outcome = "ok"
                    /\ sessions'[uid][sid].status = proc[p].status
                    /\ sessions'[uid][sid].status # "running"
                    /\ sessions'[uid][sid].endedAt # NULL
              /\ proc[p].pc = "es_update" /\ proc'[p].pc = "done"
                 => /\ proc'[p].outcome \in {"NotFound", "StorageError"}
                    /\ sessions' = sessions /\ userDocs' = userDocs
              /\ proc[p].pc = "es_update" /\ proc'[p].pc = "es_clear"
                 => sessions'[uid][sid].status = proc[p].status]_vars

\* an endSession call has completed a running session and returned normally,
\* and the pointer still names the session: the clearing write had failed
C27_Witness ==
    /\ Done(1, "endSession") /\ proc[1].outcome = "ok"
    /\ proc[1].prior = "running"
    /\ sessions[proc[1].uid][proc[1].sessId].status = "completed"
    /\ PointsAt(userDocs, proc[1].uid, proc[1].sessId)

ScoreOnScale(x) == x \in {NULLNUM, ABSENT} \/ x \in 0 .. 100

\* C29: in every reachable state and for every session, durationMinutes >= 0
\* and burnoutScoreAtStart and burnoutScoreAtEnd are each null/absent or
\* within 0..100, whatever numbers (negative, above 100) startSession and
\* endSession were called with.
C29_DurationAndScoresInRange ==
    \A u \in Users : \A s \in SessionIds(u) :
        /\ sessions[u][s].durationMinutes >= 0
        /\ ScoreOnScale(sessions[u][s].burnoutScoreAtStart)
        /\ ScoreOnScale(sessions[u][s].burnoutScoreAtEnd)

\* a session started with a score of -20 was ended with a duration of -5 and
\* a score of -20, and one started with a score of 150 was ended with 150
C29_Witness ==
    /\ Len(sessions["u1"]) = 2
    /\ \E s, t \in 1 .. 2 :
          /\ sessions["u1"][s].burnoutScoreAtStart = 0
          /\ sessions["u1"][s].status = "cancelled"
          /\ sessions["u1"][s].durationMinutes = 0
          /\ sessions["u1"][s].burnoutScoreAtEnd = 0
          /\ sessions["u1"][t].burnoutScoreAtStart = 100
          /\ sessions["u1"][t].burnoutScoreAtEnd = 100
          /\ sessions["u1"][t].durationMinutes = 25

\* C30: in every reachable state and for every task, completedAt is set
\* (non-null) exactly when done is true, after any sequence of createPlan,
\* setTaskDone (true or false, repeated) and optimizeTasksInPlan calls.
C30_CompletedAtSetIffDone ==
    \A planId \in PlanIds : \A taskId \in TaskIds(planId) :
        (tasks[planId][taskId].completedAt # NULL) <=> tasks[planId][taskId].done

\* an optimizeTasksInPlan call has rewritten a task that setTaskDone had
\* marked done: the task is still done and still has its completion time
C30_Witness ==
    /\ Done(1, "optimizeTasksInPlan") /\ proc[1].outcome = "ok"
    /\ \E taskId \in TaskIds(proc[1].planId) :
          LET doc == tasks[proc[1].planId][taskId]
          IN  /\ "optimizedAt" \in DOMAIN doc
              /\ doc.done /\ doc.completedAt # NULL

RepairPcs == {"heal_get", "heal_query", "heal_commit", "heal_ptr", "gap_fixptr", "gap_ptr2"}

\* C32: in every state with no call in flight, reached by non-overlapping
\* createPlan, setPlanActive, getActivePlan and getPlans calls without store
\* faults, a pointer activePlanId that is set names a plan of the user that
\* is active and is the user's only active plan; and no getActivePlan ever
\* finds a disagreement to repair.
C32_PointerAndActiveFlagAgreeAtRest ==
    /\ \A p \in Procs : proc[p].pc \notin RepairPcs
    /\ AllResting
       => \A u \in Users :
             ActivePlanPointer(u) # NULL
             => /\ ActivePlanPointer(u) \in PlansOf(u)
                /\ ActivePlansOf(u) = {ActivePlanPointer(u)}

\* a user with two plans has made the older one active again, and a
\* getActivePlan call has since returned it through the pointer
C32_Witness ==
    /\ Done(1, "getActivePlan") /\ proc[1].tier = "pointer"
    /\ PlansOf(proc[1].uid) = {1, 2}
    /\ proc[1].rid = 1
    /\ ActivePlanPointer(proc[1].uid) = 1
    /\ ActivePlansOf(proc[1].uid) = {1}

\* C33: in every state with no call in flight, reached by non-overlapping
\* startSession, endSession and cancelSession calls without store faults, a
\* pointer activeSessionId that is non-null names an existing session of
\* that user whose status is running.
C33_SessionPointerNamesRunningAtRest ==
    AllResting
    => \A u \in Users :
          ActiveSessionPointer(u) # NULL
          => /\ ActiveSessionPointer(u) \in SessionIds(u)
             /\ sessions[u][ActiveSessionPointer(u)].status = "running"

\* after a first session was completed, a second one was started and is
\* running, and the pointer names it
C33_Witness ==
    /\ AllResting /\ Done(1, "startSession")
    /\ ActiveSessionPointer("u1") = 2
    /\ sessions["u1"][1].status = "completed"
    /\ sessions["u1"][2].status = "running"

\* C34: without store faults or concurrent calls, a getActivePlan call made
\* immediately after a getActivePlan call of the same user that returned a
\* plan P performs no store write in any of its steps, takes none of the
\* fallback or repair paths, and returns P through the pointer tier.
C34_SelfHealConvergesInOneStep ==
    [][\A p \in Procs :
          /\ proc[p].op = "getActivePlan" /\ proc[p].pc # "done"
          /\ proc[p].prev # NULL
          /\ proc'[p] # proc[p]
          => /\ plans' = plans /\ userDocs' = userDocs
             /\ proc'[p].pc \in {"gap_get", "done"}
             /\ proc'[p].pc = "done"
                => /\ proc'[p].outcome = "ok"
                   /\ proc'[p].rid = proc[p].prev
                   /\ proc'[p].tier = "pointer"]_vars

\* a getActivePlan call returned, through the pointer, the plan that the
\* call before it had made the only active one by its self-heal
C34_Witness ==
    /\ Done(1, "getActivePlan") /\ proc[1].outcome = "ok"
    /\ proc[1].prior = "heal" /\ proc[1].prev # NULL
    /\ proc[1].rid = proc[1].prev /\ proc[1].tier = "pointer"
    /\ Cardinality(PlansOf(proc[1].uid)) > 1

====
